---- MODULE Spec2Model ----
(***************************************************************************)
(* Logging middleware of the URL shortener: the validated, authenticated,  *)
(* retried delivery of log records (Logger, AuthService, validator) and    *)
(* the process-wide facade (initializeLogger / Log / getLogger / logX).    *)
(*                                                                         *)
(* Strings are modelled by what the code's conversions can observe:        *)
(*   - an enumeration field (stack, level, package) is a base word with    *)
(*     two flags, "written with upper-case letters" and "surrounded by     *)
(*     whitespace"; toLowerCase() clears the first, trim() the second;     *)
(*   - a message is its count of leading whitespace, of core characters    *)
(*     and of trailing whitespace, plus the upper-case flag.               *)
(***************************************************************************)
EXTENDS Integers, Sequences, FiniteSets, TLC

(***************************************************************************)
(* Bounds of the model                                                     *)
(***************************************************************************)
\* authenticate and refreshTokenIfNeeded calls made on one AuthService used
\* directly during one behaviour.
MaxAuthCalls == 2
\* Responses that redirect to the URL of one shortcode during one behaviour.
MaxRedirects == 2
\* Longest string handed to normalizeValue directly.
MaxStrLen == 3
\* initialize() calls during one behaviour, each one authenticate exchange;
\* initializeLogger constructs one Logger for each of its calls.
MaxInits == 2
\* Largest retryAttempts a configuration sets (0: absent, the default applies).
MaxRetryCfg == 2

(***************************************************************************)
(* Program constants                                                       *)
(***************************************************************************)
DefaultRetryAttempts == 3
DefaultRetryDelay == 1000
MaxMessageLength == 1000
TokenBufferMs == 300000
DefaultValidity == 30

(***************************************************************************)
(* Strings                                                                 *)
(***************************************************************************)
Lit(w) == [base |-> w, upper |-> FALSE, pad |-> FALSE]
Upper(w) == [base |-> w, upper |-> TRUE, pad |-> FALSE]
Padded(w) == [base |-> w, upper |-> FALSE, pad |-> TRUE]
UpperPadded(w) == [base |-> w, upper |-> TRUE, pad |-> TRUE]

toLowerCase(v) == [v EXCEPT !.upper = FALSE]
trim(v) == [v EXCEPT !.pad = FALSE]

\* A message of `core` characters between `lead` and `trail` whitespace
\* characters; a message of whitespace only has core = 0.
Msg(lead, core, trail, upper) ==
    [lead |-> lead, core |-> core, trail |-> trail, upper |-> upper]
MsgLength(m) == m.lead + m.core + m.trail
MsgTrim(m) == [m EXCEPT !.lead = 0, !.trail = 0]
MsgLower(m) == [m EXCEPT !.upper = FALSE]

(***************************************************************************)
(* validator.ts                                                            *)
(***************************************************************************)
VALID_STACKS == {Lit("backend"), Lit("frontend")}
VALID_LEVELS == {Lit("debug"), Lit("info"), Lit("warn"), Lit("error"), Lit("fatal")}
BACKEND_PACKAGES ==
    {Lit("cache"), Lit("controller"), Lit("cron_job"), Lit("db"), Lit("domain"),
     Lit("handler"), Lit("repository"), Lit("route"), Lit("service")}
FRONTEND_PACKAGES ==
    {Lit("api"), Lit("component"), Lit("hook"), Lit("page"), Lit("state"), Lit("style")}
SHARED_PACKAGES == {Lit("auth"), Lit("config"), Lit("middleware"), Lit("utils")}
ALL_PACKAGES == BACKEND_PACKAGES \cup FRONTEND_PACKAGES \cup SHARED_PACKAGES

isValidStack(stack) == stack \in VALID_STACKS
isValidLevel(level) == level \in VALID_LEVELS
isValidPackage(pkg) == pkg \in ALL_PACKAGES

isValidPackageForStackOwnOnly(stack, pkg) ==
    IF stack = Lit("backend") THEN pkg \in BACKEND_PACKAGES
    ELSE IF stack = Lit("frontend") THEN pkg \in FRONTEND_PACKAGES
    ELSE FALSE
isValidPackageForStack(stack, pkg) ==
    IF pkg \in SHARED_PACKAGES THEN TRUE
    ELSE IF stack = Lit("backend") THEN pkg \in BACKEND_PACKAGES
    ELSE IF stack = Lit("frontend") THEN pkg \in FRONTEND_PACKAGES
    ELSE FALSE

\* The errors array, in the order the checks push to it; each error is
\* named by the rule it reports.
validateErrorsCompatUnguarded(stack, level, pkg, message) ==
    (IF ~isValidStack(stack) THEN <<"stack">> ELSE <<>>)
    \o (IF ~isValidLevel(level) THEN <<"level">> ELSE <<>>)
    \o (IF ~isValidPackage(pkg) THEN <<"package">> ELSE <<>>)
    \o (IF ~isValidPackageForStack(stack, pkg)
        THEN <<"packageForStack">> ELSE <<>>)
    \o (IF MsgLength(message) = 0 THEN <<"messageEmpty">> ELSE <<>>)
    \o (IF MsgLength(message) > MaxMessageLength THEN <<"messageLength">> ELSE <<>>)
validateErrorsLengthInclusive(stack, level, pkg, message) ==
    (IF ~isValidStack(stack) THEN <<"stack">> ELSE <<>>)
    \o (IF ~isValidLevel(level) THEN <<"level">> ELSE <<>>)
    \o (IF ~isValidPackage(pkg) THEN <<"package">> ELSE <<>>)
    \o (IF isValidStack(stack) /\ isValidPackage(pkg)
           /\ ~isValidPackageForStack(stack, pkg)
        THEN <<"packageForStack">> ELSE <<>>)
    \o (IF MsgLength(message) = 0 THEN <<"messageEmpty">> ELSE <<>>)
    \o (IF MsgLength(message) >= MaxMessageLength THEN <<"messageLength">> ELSE <<>>)
validateErrors(stack, level, pkg, message) ==
    (IF ~isValidStack(stack) THEN <<"stack">> ELSE <<>>)
    \o (IF ~isValidLevel(level) THEN <<"level">> ELSE <<>>)
    \o (IF ~isValidPackage(pkg) THEN <<"package">> ELSE <<>>)
    \o (IF isValidStack(stack) /\ isValidPackage(pkg)
           /\ ~isValidPackageForStack(stack, pkg)
        THEN <<"packageForStack">> ELSE <<>>)
    \o (IF MsgLength(message) = 0 THEN <<"messageEmpty">> ELSE <<>>)
    \o (IF MsgLength(message) > MaxMessageLength THEN <<"messageLength">> ELSE <<>>)

validateLogParameters(stack, level, pkg, message) ==
    [isValid |-> Len(validateErrors(stack, level, pkg, message)) = 0,
     errors |-> validateErrors(stack, level, pkg, message)]

normalizeValue(value) == trim(toLowerCase(value))

\* A direct call of the exported validateLogParameters (index.ts exports it;
\* the validation tests call it): its four arguments as passed, and what it
\* returned once it has run.
NoValidation == [isValid |-> FALSE, errors |-> <<"pending">>]
NoValidatorCall ==
    [stack |-> [base |-> "", upper |-> FALSE, pad |-> FALSE],
     level |-> [base |-> "", upper |-> FALSE, pad |-> FALSE],
     package |-> [base |-> "", upper |-> FALSE, pad |-> FALSE],
     message |-> [lead |-> 0, core |-> 0, trail |-> 0, upper |-> FALSE],
     pc |-> "none", result |-> NoValidation]


(***************************************************************************)
(* State                                                                   *)
(***************************************************************************)
VARIABLES
    loggers,        \* the Logger instances constructed so far, in order
    globalLogger,   \* index into loggers of the module's globalLogger, 0: null
    inits,          \* the initialize() calls made so far, in order
    calls,          \* one record per caller slot: a Log / logX call in progress
    appConfig,      \* the LoggerConfig the application passes to initializeLogger
    now,            \* Date.now()
    validatorCall,  \* a direct call of validateLogParameters: arguments, result
    urlService      \* urlService.ts: the maps, the operations in progress

vars == <<loggers, globalLogger, inits, calls, appConfig, now, validatorCall,
          urlService>>

\* Concurrent callers of Log.
Callers == {"c1"}

\* urlService.ts: shortUrls maps a shortcode to its record (stored: the map
\* has the key), clicks a shortcode to the number of clicks in its list;
\* redirects counts the responses that redirected. ops holds the operation
\* of each request in progress: pc is the await of Log it is suspended at:
\* begin (its first Log), exists, chosen, expired, final (the Log before its
\* return), catch (the Log of its catch block), clickBegin, clickFinal,
\* clickCatch (those of recordClick); before, clicksBefore and at are the
\* maps and the clock when it was called, rejected whether a Log it awaited
\* has rejected, response the status the endpoint answered (0: none),
\* clicked whether its recordClick pushed a click.
Shortcodes == {"abc", "gen"}
Urls == {"http://a.example", "http://b.example"}
NoShortUrl == [stored |-> FALSE, originalUrl |-> "", expiryDate |-> 0, isActive |-> FALSE]
NoRequest == [url |-> "", shortcode |-> ""]
NoValue == [kind |-> "none", of |-> ""]
NullValue == [kind |-> "null", of |-> ""]
NoUrlOp ==
    [name |-> "none", request |-> NoRequest, pc |-> "idle", shortcode |-> "",
     outcome |-> "pending", value |-> NoValue, error |-> "", response |-> 0,
     clicked |-> FALSE, before |-> [sc \in Shortcodes |-> NoShortUrl],
     clicksBefore |-> [sc \in Shortcodes |-> 0], at |-> 0, rejected |-> FALSE]
NoUrlService ==
    [shortUrls |-> [sc \in Shortcodes |-> NoShortUrl],
     clicks |-> [sc \in Shortcodes |-> 0],
     redirects |-> [sc \in Shortcodes |-> 0],
     ops |-> [c \in Callers |-> NoUrlOp]]

(***************************************************************************)
(* auth.ts: AuthService                                                    *)
(***************************************************************************)
NullToken == [src |-> "null", n |-> 0]
ConfigToken == [src |-> "config", n |-> 0]
AuthToken(i) == [src |-> "auth", n |-> i]

\* What the last successful authenticate() answered and when, NotIssued
\* when there was none since construction or since the last clearToken().
NotIssued == [at |-> -1, expires_in |-> 0]

\* The constructor: authToken is taken from config.authToken when provided.
AuthServiceNew(config) ==
    [authToken |-> IF config.authToken THEN ConfigToken ELSE NullToken,
     tokenExpiry |-> 0,
     issued |-> NotIssued]

\* authenticate(), after a successful response: token and expiry are stored.
AuthStoreKeepLaterExpiry(lg, access_token, expires_in) ==
    [lg EXCEPT !.authToken = access_token,
               !.tokenExpiry = IF @ > now + expires_in * 1000 THEN @
                               ELSE now + expires_in * 1000,
               !.issued = [at |-> now, expires_in |-> expires_in]]
AuthStore(lg, access_token, expires_in) ==
    [lg EXCEPT !.authToken = access_token,
               !.tokenExpiry = now + expires_in * 1000,
               !.issued = [at |-> now, expires_in |-> expires_in]]

isTokenValidNoBuffer(lg) ==
    IF lg.authToken = NullToken \/ lg.tokenExpiry = 0 THEN FALSE
    ELSE now < lg.tokenExpiry
isTokenValid(lg) ==
    IF lg.authToken = NullToken \/ lg.tokenExpiry = 0 THEN FALSE
    ELSE now < lg.tokenExpiry - TokenBufferMs

clearTokenExpiryOnly(lg) == [lg EXCEPT !.tokenExpiry = 0, !.issued = NotIssued]
clearToken(lg) ==
    [lg EXCEPT !.authToken = NullToken, !.tokenExpiry = 0, !.issued = NotIssued]

\* null (NoHeader) when no token is stored, else `Bearer ${authToken}`.
NoHeader == [scheme |-> "null", token |-> NullToken]
getAuthorizationHeader(lg) ==
    IF lg.authToken = NullToken THEN NoHeader
    ELSE [scheme |-> "Bearer", token |-> lg.authToken]

(***************************************************************************)
(* logger.ts: Logger                                                       *)
(***************************************************************************)
\* config.retryAttempts || 3, config.retryDelay || 1000: an absent value and
\* 0 are both falsy; the fields of AuthService are kept in the same record.
LoggerNew(config) ==
    [isInitialized |-> FALSE,
     retryAttempts |-> IF config.retryAttempts = 0 THEN DefaultRetryAttempts
                       ELSE config.retryAttempts,
     retryDelay |-> IF config.retryDelay = 0 THEN DefaultRetryDelay
                    ELSE config.retryDelay,
     authToken |-> AuthServiceNew(config).authToken,
     tokenExpiry |-> AuthServiceNew(config).tokenExpiry,
     issued |-> AuthServiceNew(config).issued,
     outSince |-> FALSE]

\* The configurations the application may pass: every retryAttempts up to
\* the bound (0: absent), an explicit retryDelay when retryAttempts is
\* explicit, and an initial authToken in the single-attempt configuration.
Configs ==
    { [retryAttempts |-> r, retryDelay |-> IF r = 0 THEN 0 ELSE 500,
       authToken |-> (r = 1)] : r \in 0..MaxRetryCfg }

ExpiresInChoices == {3600}

\* What an attempt can fail with: an axios error with a response (status),
\* an axios error without one (timeout, connection error), or the Error
\* thrown when no authorization header is available.
\* `at` is the attempt that raised the error (each attempt raises its own).
NoError == [kind |-> "none", status |-> 0, at |-> 0]
HttpError(status) == [kind |-> "response", status |-> status, at |-> 0]
NoResponse == [kind |-> "noResponse", status |-> 0, at |-> 0]
NoTokenError == [kind |-> "noToken", status |-> 0, at |-> 0]
TransportFailures == {HttpError(400), HttpError(404), HttpError(500), NoResponse}
isTransient(error) ==
    \/ error.kind = "noResponse"
    \/ error.kind = "response" /\ error.status >= 500

NoResult == [kind |-> "none", error |-> NoError, errors |-> <<>>]
NoInput == [stack |-> Lit(""), level |-> Lit(""), package |-> Lit(""),
            message |-> Msg(0, 0, 0, FALSE)]

\* result.kind: ok, ValidationError (errors: the rules reported),
\* NotInitialized (errors: the call the message asks for), HttpError (error:
\* the response's error), DeliveryError (error: the lastError it quotes).
\* pc: idle, posting (awaiting the response of a POST), waiting (in delay()),
\* done. posts, waits, transient and others record what the call has done so
\* far: its POSTs, its backoff waits, its attempts that failed with a 5xx
\* status or without a response, and its attempts that failed otherwise and
\* were retried. outcome is what the caller's promise did; afterLogout and
\* beforeInit record the facade's history at the moment of the call; header
\* is the Authorization header of the POST in flight; bodies is the set of
\* the request bodies the call has POSTed; suspended is the set of the other
\* callers that were in delay() when the call was made; logID is the logID
\* of the response.data the loop returned (0: none), the answer to the k-th
\* POST of a call carrying logID k.
IdleCall ==
    [pc |-> "idle", via |-> "none", logger |-> 0, args |-> NoInput, req |-> NoInput,
     attempt |-> 0, lastError |-> NoError, header |-> NoHeader,
     posts |-> 0, waits |-> <<>>, transient |-> 0, others |-> 0,
     bodies |-> {}, suspended |-> {}, logID |-> 0,
     result |-> NoResult, outcome |-> "pending",
     afterLogout |-> FALSE, beforeInit |-> FALSE]

Init ==
    /\ loggers = <<>>
    /\ globalLogger = 0
    /\ inits = <<>>
    /\ calls = [c \in Callers |-> IdleCall]
    /\ appConfig \in Configs
    /\ now = 0
    /\ urlService = NoUrlService
    /\ validatorCall = NoValidatorCall

(***************************************************************************)
(* Logger.initialize, initializeLogger, Logger.logout                      *)
(***************************************************************************)
\* A Logger is referenced by globalLogger, by an initialize() call that has
\* not returned, or by a Log call that has not returned. One that nothing
\* references any more is garbage: its fields can no longer be read.
isReferenced(l, g, ins, cs) ==
    \/ l = g
    \/ \E i \in 1..Len(ins) : ins[i].logger = l /\ ins[i].pc # "done"
    \/ \E c \in DOMAIN cs : cs[c].pc # "idle" /\ cs[c].logger = l

Garbage ==
    [isInitialized |-> FALSE, retryAttempts |-> 0, retryDelay |-> 0,
     authToken |-> NullToken, tokenExpiry |-> 0, issued |-> NotIssued,
     outSince |-> FALSE]

collect(ls, g, ins, cs) ==
    [l \in 1..Len(ls) |-> IF isReferenced(l, g, ins, cs) THEN ls[l] ELSE Garbage]

NewInit(l, viaGlobal) ==
    [logger |-> l, global |-> viaGlobal, pc |-> "auth", result |-> "pending"]

\* initializeLogger(config, credentials): the new Logger is stored in
\* globalLogger before initialize() is awaited; initialize() runs up to the
\* POST /auth of authenticate().
initializeLogger(config) ==
    /\ config = appConfig
    /\ Len(inits) < MaxInits
    /\ globalLogger' = Len(loggers) + 1
    /\ inits' = Append(inits, NewInit(Len(loggers) + 1, TRUE))
    /\ loggers' = collect(Append(loggers, LoggerNew(config)),
                          globalLogger', inits', calls)
    /\ UNCHANGED <<calls, appConfig, now, validatorCall,
                 urlService>>

\* getLogger().initialize(credentials) on the instance that exists already,
\* e.g. to log in again after logout().
initialize(l) ==
    /\ l # 0
    /\ l = globalLogger
    /\ Len(inits) < MaxInits
    /\ inits' = Append(inits, NewInit(l, FALSE))
    /\ loggers' = [loggers EXCEPT ![l].outSince = FALSE]
    /\ UNCHANGED <<globalLogger, calls, appConfig, now, validatorCall,
                 urlService>>

\* The /auth exchange of initialize call i succeeds: authenticate() stores
\* the token and the expiry and returns; initialize() then resumes.
authenticateAnswers(i, expires_in) ==
    /\ i \in 1..Len(inits)
    /\ inits[i].pc = "auth"
    /\ loggers' = [loggers EXCEPT ![inits[i].logger] =
                      AuthStore(@, AuthToken(i), expires_in)]
    /\ inits' = [inits EXCEPT ![i].pc = "resume"]
    /\ UNCHANGED <<globalLogger, calls, appConfig, now, validatorCall,
                 urlService>>

authenticateOk(i) == \E expires_in \in ExpiresInChoices : authenticateAnswers(i, expires_in)

\* The /auth exchange fails (error status or no response): authenticate()
\* throws "Authentication failed: ...", initialize() logs and rethrows, and
\* initializeLogger() rejects with it.
authenticateFail(i) ==
    /\ i \in 1..Len(inits)
    /\ inits[i].pc = "auth"
    /\ inits' = [inits EXCEPT ![i].pc = "done", ![i].result = "AuthenticationError"]
    /\ loggers' = collect(loggers, globalLogger, inits', calls)
    /\ UNCHANGED <<globalLogger, calls, appConfig, now, validatorCall,
                 urlService>>

\* initialize() resumes after its await: this.isInitialized = true.
initializeResume(i) ==
    /\ i \in 1..Len(inits)
    /\ inits[i].pc = "resume"
    /\ inits' = [inits EXCEPT ![i].pc = "done", ![i].result = "ok"]
    /\ loggers' = collect([loggers EXCEPT ![inits[i].logger].isInitialized = TRUE],
                          globalLogger, inits', calls)
    /\ UNCHANGED <<globalLogger, calls, appConfig, now, validatorCall,
                 urlService>>

\* getLogger().logout()
logout(l) ==
    /\ l # 0
    /\ l = globalLogger
    /\ loggers' = [loggers EXCEPT ![l] =
                      [clearToken(@) EXCEPT !.isInitialized = FALSE,
                                            !.outSince = TRUE]]
    /\ UNCHANGED <<globalLogger, inits, calls, appConfig, now, validatorCall,
                 urlService>>

getLogger == globalLogger

\* Logger.isAuthenticated()
isAuthenticatedByFlag(lg) == lg.isInitialized
isAuthenticated(lg) == lg.isInitialized /\ isTokenValid(lg)

(***************************************************************************)
(* Logger.sendLogWithRetry                                                 *)
(***************************************************************************)
\* The test of the catch block: "response" in error && status === 400.
isNotRetriedNever(error) == FALSE
isNotRetriedNorNoToken(error) ==
    \/ error.kind = "response" /\ error.status = 400
    \/ error.kind = "noToken"
isNotRetried(error) == error.kind = "response" /\ error.status = 400

\* The loop condition after attempt++ : another iteration follows.
attemptsRemainOffByOne(cr, lg) == cr.attempt <= lg.retryAttempts
attemptsRemain(cr, lg) == cr.attempt < lg.retryAttempts

\* lastError = error
recordErrorFirstOnly(cr, error) ==
    IF cr.lastError = NoError THEN [cr EXCEPT !.lastError = [error EXCEPT !.at = cr.attempt]]
    ELSE cr
recordError(cr, error) == [cr EXCEPT !.lastError = [error EXCEPT !.at = cr.attempt]]

\* this.retryDelay * attempt
backoffConstant(lg, attempt) == lg.retryDelay
backoff(lg, attempt) == lg.retryDelay * attempt

\* The catch block of one iteration, and the throw after the loop when that
\* iteration was the last.
attemptFailed(cr, lg, error) ==
    LET c0 == recordError(cr, error)
        c1 == IF isNotRetried(error) THEN c0
              ELSE IF isTransient(error) THEN [c0 EXCEPT !.transient = @ + 1]
              ELSE [c0 EXCEPT !.others = @ + 1]
    IN  IF isNotRetried(error)
        THEN [c1 EXCEPT !.pc = "done",
                        !.result = [kind |-> "HttpError",
                                    error |-> [error EXCEPT !.at = cr.attempt],
                                    errors |-> <<>>]]
        ELSE IF attemptsRemain(c1, lg)
        THEN [c1 EXCEPT !.pc = "waiting",
                        !.waits = Append(@, [after |-> c1.attempt,
                                             ms |-> backoff(lg, c1.attempt)])]
        ELSE [c1 EXCEPT !.pc = "done",
                        !.result = [kind |-> "DeliveryError", error |-> c1.lastError,
                                    errors |-> <<>>]]

\* The body handed to axiosInstance.post: the logRequest the loop was given.
postBodyStamped(cr) ==
    [cr.req EXCEPT !.message.trail = @ + (cr.attempt - 1)]
postBody(cr) == cr.req

\* The try block of one iteration up to the await of axiosInstance.post: an
\* invalid token only logs a warning; a missing header throws into the catch.
beginAttemptUnchecked(cr, lg) ==
    [cr EXCEPT !.pc = "posting", !.posts = @ + 1,
               !.header = getAuthorizationHeader(lg),
               !.bodies = @ \cup {postBody(cr)}]
beginAttempt(cr, lg) ==
    IF getAuthorizationHeader(lg) = NoHeader
    THEN attemptFailed(cr, lg, NoTokenError)
    ELSE [cr EXCEPT !.pc = "posting", !.posts = @ + 1,
                    !.header = getAuthorizationHeader(lg),
                    !.bodies = @ \cup {postBody(cr)}]

sendLogWithRetry(cr, lg) ==
    beginAttempt([cr EXCEPT !.attempt = 1, !.lastError = NoError], lg)

(***************************************************************************)
(* Logger.Log, Log, logDebug .. logFatal                                   *)
(***************************************************************************)
LoggerLog(cr, lg) ==
    LET normalizedStack == normalizeValue(cr.args.stack)
        normalizedLevel == normalizeValue(cr.args.level)
        normalizedPackage == normalizeValue(cr.args.package)
        validation == validateLogParameters(normalizedStack, normalizedLevel,
                                            normalizedPackage, cr.args.message)
    IN  IF ~validation.isValid
        THEN [cr EXCEPT !.pc = "done",
                        !.result = [kind |-> "ValidationError", error |-> NoError,
                                    errors |-> validation.errors]]
        ELSE IF ~lg.isInitialized
        THEN [cr EXCEPT !.pc = "done",
                        !.result = [kind |-> "NotInitialized", error |-> NoError,
                                    errors |-> <<"initialize">>]]
        ELSE sendLogWithRetry(
                 [cr EXCEPT !.req = [stack |-> normalizedStack,
                                     level |-> normalizedLevel,
                                     package |-> normalizedPackage,
                                     message |-> MsgTrim(cr.args.message)]], lg)

\* The exported Log: throws when globalLogger is null, else delegates.
GlobalLogValidatesFirst(cr) ==
    IF globalLogger = 0
    THEN IF validateLogParameters(normalizeValue(cr.args.stack),
                                  normalizeValue(cr.args.level),
                                  normalizeValue(cr.args.package),
                                  cr.args.message).isValid
         THEN [cr EXCEPT !.pc = "done",
                         !.result = [kind |-> "NotInitialized", error |-> NoError,
                                     errors |-> <<"initializeLogger">>]]
         ELSE [cr EXCEPT !.pc = "done",
                         !.result = [kind |-> "ValidationError", error |-> NoError,
                                     errors |-> <<>>]]
    ELSE LoggerLog([cr EXCEPT !.logger = globalLogger], loggers[globalLogger])
GlobalLog(cr) ==
    IF globalLogger = 0
    THEN [cr EXCEPT !.pc = "done",
                    !.result = [kind |-> "NotInitialized", error |-> NoError,
                                errors |-> <<"initializeLogger">>]]
    ELSE LoggerLog([cr EXCEPT !.logger = globalLogger], loggers[globalLogger])

ConvenienceOps == {"logDebug", "logInfo", "logWarn", "logError", "logFatal"}
FixedLevel(op) ==
    CASE op = "logDebug" -> Lit("debug")
      [] op = "logInfo" -> Lit("info")
      [] op = "logWarn" -> Lit("warn")
      [] op = "logError" -> Lit("error")
      [] op = "logFatal" -> Lit("fatal")

\* What the promise returned to the caller does once the call has ended:
\* Log and Logger.Log reject with the error; logX catches it and returns.
callerOutcomeRethrown(via, result) ==
    IF result.kind = "ok" THEN "resolved" ELSE "rejected"
callerOutcome(via, result) ==
    IF via \in ConvenienceOps THEN "resolved"
    ELSE IF result.kind = "ok" THEN "resolved" ELSE "rejected"

settle(cr) ==
    IF cr.pc = "done" THEN [cr EXCEPT !.outcome = callerOutcome(cr.via, cr.result)]
    ELSE cr

Started(c, via, args) ==
    [IdleCall EXCEPT !.via = via, !.args = args, !.beforeInit = (Len(inits) = 0),
                     !.suspended = {d \in DOMAIN calls \ {c} :
                                       calls[d].pc = "waiting"}]

\* The arguments callers pass to logX (the level is the operation's).
ConvenienceInputs ==
    { [stack |-> Lit("backend"), level |-> Lit(""), package |-> Lit("handler"),
       message |-> Msg(0, 5, 0, FALSE)],
      [stack |-> Lit("frontend"), level |-> Lit(""), package |-> Upper("db"),
       message |-> Msg(0, 5, 0, FALSE)] }

\* The arguments callers pass to Log.
Inputs ==
    { [stack |-> Lit("backend"), level |-> Lit("info"), package |-> Lit("handler"),
       message |-> Msg(0, 5, 0, FALSE)],
      [stack |-> UpperPadded("backend"), level |-> Upper("info"),
       package |-> Upper("handler"), message |-> Msg(1, 5, 1, TRUE)],
      [stack |-> Lit("frontend"), level |-> Lit("error"), package |-> Lit("db"),
       message |-> Msg(0, 5, 0, FALSE)],
      [stack |-> Lit("mobile"), level |-> Lit("critical"), package |-> Lit("invalid"),
       message |-> Msg(0, 0, 0, FALSE)],
      [stack |-> Lit("backend"), level |-> Lit("info"), package |-> Lit("handler"),
       message |-> Msg(2, 0, 0, FALSE)],
      [stack |-> Lit("frontend"), level |-> Lit("debug"), package |-> Lit("api"),
       message |-> Msg(0, MaxMessageLength + 1, 0, FALSE)] }

\* await Log(stack, level, pkg, message)
LogExclusive(c, input) ==
    /\ calls[c].pc = "idle"
    /\ calls' = [calls EXCEPT ![c] =
          IF \E d \in DOMAIN calls \ {c} : calls[d].pc \in {"posting", "waiting"}
          THEN [Started(c, "Log", input) EXCEPT !.pc = "queued"]
          ELSE settle([GlobalLog(Started(c, "Log", input)) EXCEPT
                          !.afterLogout = (globalLogger # 0
                                           /\ loggers[globalLogger].outSince)])]
    /\ UNCHANGED <<loggers, globalLogger, inits, appConfig, now, validatorCall,
                 urlService>>
LogStarted(c, input) ==
    settle([GlobalLog(Started(c, "Log", input)) EXCEPT
                !.afterLogout = (globalLogger # 0 /\ loggers[globalLogger].outSince)])
Log(c, input) ==
    /\ calls[c].pc = "idle"
    /\ calls' = [calls EXCEPT ![c] = LogStarted(c, input)]
    /\ UNCHANGED <<loggers, globalLogger, inits, appConfig, now, validatorCall,
                 urlService>>

\* await logDebug / logInfo / logWarn / logError / logFatal (stack, pkg, message)
logLevel(c, op, input) ==
    /\ calls[c].pc = "idle"
    /\ input \in ConvenienceInputs
    /\ calls' = [calls EXCEPT ![c] =
          settle([GlobalLog(Started(c, op, [input EXCEPT !.level = FixedLevel(op)]))
                      EXCEPT !.afterLogout = (globalLogger # 0
                                              /\ loggers[globalLogger].outSince)])]
    /\ UNCHANGED <<loggers, globalLogger, inits, appConfig, now, validatorCall,
                 urlService>>

logDebug(c, input) == logLevel(c, "logDebug", input)
logInfo(c, input) == logLevel(c, "logInfo", input)
logWarn(c, input) == logLevel(c, "logWarn", input)
logError(c, input) == logLevel(c, "logError", input)
logFatal(c, input) == logLevel(c, "logFatal", input)

\* The collector answers the POST in flight with a 2xx response.
postSucceedsLoopGoesOn(c) ==
    /\ calls[c].pc = "posting"
    /\ calls' = [calls EXCEPT ![c] =
          settle(IF attemptsRemain(@, loggers[@.logger])
                 THEN [@ EXCEPT !.pc = "waiting", !.header = NoHeader,
                                !.logID = calls[c].posts,
                                !.waits = Append(@, [after |-> calls[c].attempt,
                                                     ms |-> 0])]
                 ELSE [@ EXCEPT !.pc = "done", !.header = NoHeader,
                                !.logID = calls[c].posts,
                                !.result = [kind |-> "ok", error |-> NoError,
                                            errors |-> <<>>]])]
    /\ UNCHANGED <<loggers, globalLogger, inits, appConfig, now, validatorCall,
                 urlService>>
postSucceeds(c) ==
    /\ calls[c].pc = "posting"
    /\ calls' = [calls EXCEPT ![c] =
          settle([@ EXCEPT !.pc = "done", !.header = NoHeader,
                           !.logID = calls[c].posts,
                           !.result = [kind |-> "ok", error |-> NoError,
                                       errors |-> <<>>]])]
    /\ UNCHANGED <<loggers, globalLogger, inits, appConfig, now, validatorCall,
                 urlService>>

\* The POST in flight fails: an error status, a timeout or a connection error.
postFailsDropsToken(c, error) ==
    /\ calls[c].pc = "posting"
    /\ error \in TransportFailures
    /\ calls' = [calls EXCEPT ![c] =
          settle(attemptFailed([@ EXCEPT !.header = NoHeader],
                               loggers[@.logger], error))]
    /\ loggers' = [loggers EXCEPT ![calls[c].logger] =
                      IF calls'[c].pc = "done" THEN clearToken(@) ELSE @]
    /\ UNCHANGED <<globalLogger, inits, appConfig, now, validatorCall, urlService>>
postFails(c, error) ==
    /\ calls[c].pc = "posting"
    /\ error \in TransportFailures
    /\ calls' = [calls EXCEPT ![c] =
          settle(attemptFailed([@ EXCEPT !.header = NoHeader],
                               loggers[@.logger], error))]
    /\ UNCHANGED <<loggers, globalLogger, inits, appConfig, now, validatorCall,
                 urlService>>

\* The timer of delay() fires: the loop goes to its next iteration.
delayNeverResolves(c) ==
    /\ calls[c].pc = "waiting"
    /\ UNCHANGED vars
delayElapsed(c) ==
    /\ calls[c].pc = "waiting"
    /\ calls' = [calls EXCEPT ![c] =
          settle(beginAttempt([@ EXCEPT !.attempt = @ + 1], loggers[@.logger]))]
    /\ UNCHANGED <<loggers, globalLogger, inits, appConfig, now, validatorCall,
                 urlService>>

\* The caller has seen the outcome; the slot is free for its next call.
callReturns(c) ==
    /\ calls[c].pc = "done"
    /\ calls' = [calls EXCEPT ![c] = IdleCall]
    /\ loggers' = collect(loggers, globalLogger, inits, calls')
    /\ UNCHANGED <<globalLogger, inits, appConfig, now, validatorCall,
                 urlService>>

Next ==
    \/ \E config \in Configs : initializeLogger(config)
    \/ \E l \in 1..MaxInits : initialize(l)
    \/ \E i \in 1..MaxInits : authenticateOk(i)
    \/ \E i \in 1..MaxInits : authenticateFail(i)
    \/ \E i \in 1..MaxInits : initializeResume(i)
    \/ \E l \in 1..MaxInits : logout(l)
    \/ \E c \in Callers, input \in Inputs : Log(c, input)
    \/ \E c \in Callers, input \in ConvenienceInputs : logDebug(c, input)
    \/ \E c \in Callers, input \in ConvenienceInputs : logInfo(c, input)
    \/ \E c \in Callers, input \in ConvenienceInputs : logWarn(c, input)
    \/ \E c \in Callers, input \in ConvenienceInputs : logError(c, input)
    \/ \E c \in Callers, input \in ConvenienceInputs : logFatal(c, input)
    \/ \E c \in Callers : postSucceeds(c)
    \/ \E c \in Callers, error \in TransportFailures : postFails(c, error)
    \/ \E c \in Callers : delayElapsed(c)
    \/ \E c \in Callers : callReturns(c)

Spec == Init /\ [][Next]_vars

(***************************************************************************)
(* The facade while time passes                                            *)
(***************************************************************************)
\* Date.now() moves on. isTokenValid compares it with tokenExpiry - 300000,
\* so the clock is advanced to the instants around that comparison for a
\* stored expiry: the last millisecond before the buffer, the first one
\* inside it, and the expiry itself.
ClockInstants ==
    { loggers[l].tokenExpiry - d :
        l \in {k \in 1..Len(loggers) : loggers[k].tokenExpiry # 0},
        d \in {TokenBufferMs + 1, TokenBufferMs, 0} }

clockAdvances(l, d) ==
    /\ l \in 1..Len(loggers)
    /\ loggers[l].tokenExpiry # 0
    /\ loggers[l].tokenExpiry - d \in ClockInstants
    /\ loggers[l].tokenExpiry - d > now
    /\ now' = loggers[l].tokenExpiry - d
    /\ UNCHANGED <<loggers, globalLogger, inits, calls, appConfig, validatorCall,
                 urlService>>

\* The application of this specification configures one or two attempts,
\* logs valid records and sees the collector fail with a 5xx status.
InitTime ==
    /\ Init
    /\ appConfig.retryAttempts \in {1, 2}

TimeInputs ==
    { [stack |-> Lit("backend"), level |-> Lit("info"), package |-> Lit("handler"),
       message |-> Msg(0, 5, 0, FALSE)] }

NextTime ==
    \/ \E config \in Configs : initializeLogger(config)
    \/ \E l \in 1..MaxInits : initialize(l)
    \/ \E i \in 1..MaxInits : authenticateOk(i)
    \/ \E i \in 1..MaxInits : initializeResume(i)
    \/ \E l \in 1..MaxInits : logout(l)
    \/ \E c \in Callers, input \in TimeInputs : Log(c, input)
    \/ \E c \in Callers : postSucceeds(c)
    \/ \E c \in Callers : postFails(c, HttpError(500))
    \/ \E c \in Callers : delayElapsed(c)
    \/ \E c \in Callers : callReturns(c)
    \/ \E l \in 1..MaxInits, d \in {TokenBufferMs + 1, TokenBufferMs, 0} :
           clockAdvances(l, d)

SpecTime == InitTime /\ [][NextTime]_vars

(***************************************************************************)
(* Tokens with a short lifetime                                            *)
(***************************************************************************)
\* The /auth exchange answers with an expires_in around the 5 minutes of
\* the buffer of isTokenValid: below it, equal to it, one second above it.
ShortExpiresIn == {60, 300, 301}

NextShort ==
    \/ \E config \in Configs : initializeLogger(config)
    \/ \E i \in 1..MaxInits, expires_in \in ShortExpiresIn :
           authenticateAnswers(i, expires_in)
    \/ \E i \in 1..MaxInits : initializeResume(i)
    \/ \E c \in Callers, input \in TimeInputs : Log(c, input)
    \/ \E c \in Callers : postSucceeds(c)
    \/ \E c \in Callers : postFails(c, HttpError(500))
    \/ \E c \in Callers : delayElapsed(c)
    \/ \E c \in Callers : callReturns(c)
    \/ \E l \in 1..MaxInits, d \in {TokenBufferMs + 1, TokenBufferMs, 0} :
           clockAdvances(l, d)

SpecShort == InitTime /\ [][NextShort]_vars

(***************************************************************************)
(* Log under fair scheduling                                               *)
(***************************************************************************)
\* Every POST is answered or fails (axios is created with a timeout of 10
\* seconds), and every timer of delay() fires: the steps that end a POST in
\* flight and the step that ends a wait are taken once they are possible.
postCompletes(c) ==
    \/ postSucceeds(c)
    \/ \E error \in TransportFailures : postFails(c, error)

NextLive ==
    \/ \E config \in Configs : initializeLogger(config)
    \/ \E i \in 1..MaxInits : authenticateOk(i)
    \/ \E i \in 1..MaxInits : initializeResume(i)
    \/ \E l \in 1..MaxInits : logout(l)
    \/ \E c \in Callers, input \in Inputs : Log(c, input)
    \/ \E c \in Callers : postSucceeds(c)
    \/ \E c \in Callers, error \in TransportFailures : postFails(c, error)
    \/ \E c \in Callers : delayElapsed(c)
    \/ \E c \in Callers : callReturns(c)

Fairness ==
    \A c \in Callers : WF_vars(postCompletes(c)) /\ WF_vars(delayElapsed(c))

SpecLive == Init /\ [][NextLive]_vars /\ Fairness

(***************************************************************************)
(* Two concurrent callers of Log                                           *)
(***************************************************************************)
\* Two callers await Log on the same facade; each await suspends its caller
\* only (the POST and delay() are promises), so the steps of the two calls
\* interleave freely. The application configures one or two attempts and
\* the collector answers 2xx or 500.
TwoCallers == {"c1", "c2"}

InitTwo ==
    /\ loggers = <<>>
    /\ globalLogger = 0
    /\ inits = <<>>
    /\ calls = [c \in TwoCallers |-> IdleCall]
    /\ appConfig \in {config \in Configs : config.retryAttempts \in {1, 2}}
    /\ now = 0
    /\ urlService = NoUrlService
    /\ validatorCall = NoValidatorCall

NextTwo ==
    \/ \E config \in Configs : initializeLogger(config)
    \/ \E i \in 1..MaxInits : authenticateOk(i)
    \/ \E i \in 1..MaxInits : initializeResume(i)
    \/ \E l \in 1..MaxInits : logout(l)
    \/ \E c \in TwoCallers, input \in TimeInputs : Log(c, input)
    \/ \E c \in TwoCallers : postSucceeds(c)
    \/ \E c \in TwoCallers : postFails(c, HttpError(500))
    \/ \E c \in TwoCallers : delayElapsed(c)
    \/ \E c \in TwoCallers : callReturns(c)

SpecTwo == InitTwo /\ [][NextTwo]_vars

(***************************************************************************)
(* urlService.ts: UrlService                                               *)
(***************************************************************************)
\* The operations of UrlService await the facade's Log (not logInfo ..):
\* every operation is one try block whose catch block awaits Log again and
\* rethrows (recordClick: does not rethrow). The operation of request slot c
\* is the caller c of Log. An operation is written over the view of the
\* service it runs on: the maps and its own slot.
OpView(us, c) ==
    [shortUrls |-> us.shortUrls, clicks |-> us.clicks, redirects |-> us.redirects,
     op |-> us.ops[c]]
OpMerge(us, c, view) ==
    [shortUrls |-> view.shortUrls, clicks |-> view.clicks,
     redirects |-> view.redirects, ops |-> [us.ops EXCEPT ![c] = view.op]]

\* Log("backend", level, "service", `...`): the messages are non-empty
\* templates.
ServiceLog(level) ==
    [stack |-> Lit("backend"), level |-> Lit(level), package |-> Lit("service"),
     message |-> Msg(0, 5, 0, FALSE)]

UrlRequests == { [url |-> url, shortcode |-> sc] : url \in Urls, sc \in {"", "abc"} }
\* Requests for one URL; requests that name their shortcode.
OneUrlRequests == {request \in UrlRequests : request.url = "http://a.example"}
CustomRequests == {request \in UrlRequests : request.shortcode # ""}

UrlCalled(name, request) ==
    [NoUrlOp EXCEPT !.name = name, !.request = request, !.pc = "begin",
                    !.before = urlService.shortUrls,
                    !.clicksBefore = urlService.clicks, !.at = now]

\* An operation up to the await of its first Log.
urlCall(c, name, request) ==
    /\ urlService.ops[c].pc = "idle"
    /\ calls[c].pc = "idle"
    /\ calls' = [calls EXCEPT ![c] = LogStarted(c, ServiceLog("info"))]
    /\ urlService' = [urlService EXCEPT !.ops[c] = UrlCalled(name, request)]
    /\ UNCHANGED <<loggers, globalLogger, inits, appConfig, now, validatorCall>>

createShortUrl(c, request) == urlCall(c, "createShortUrl", request)
getOriginalUrl(c, shortcode) ==
    urlCall(c, "getOriginalUrl", [url |-> "", shortcode |-> shortcode])
getStatistics(c, shortcode) ==
    urlCall(c, "getStatistics", [url |-> "", shortcode |-> shortcode])

\* urlController.ts: GET /:shortcode awaits getOriginalUrl(shortcode) first.
redirectToOriginalUrl(c, shortcode) ==
    /\ urlService.redirects[shortcode] < MaxRedirects
    /\ urlCall(c, "redirectToOriginalUrl", [url |-> "", shortcode |-> shortcode])

ShortLink(shortcode) == [kind |-> "shortLink", of |-> shortcode]
OriginalUrl(shortUrl) == [kind |-> "originalUrl", of |-> shortUrl.originalUrl]
Statistics(shortUrl, totalClicks) ==
    [kind |-> "statistics", of |-> shortUrl.originalUrl, totalClicks |-> totalClicks]

\* The next step of an operation and the level of the Log it awaits next
\* ("none": it has ended).
Awaits(us, level) == [us |-> us, log |-> level]

\* createShortUrl after a Log that resolved; generated is what
\* generateShortcode() returned last in the do-while loop. The has() of a
\* custom shortcode and the set() are on two sides of an await of Log.
createShortUrlResumes(us, generated) ==
    LET op == us.op
        custom == op.request.shortcode
    IN  CASE op.pc = "begin" ->
               IF custom # ""
               THEN IF us.shortUrls[custom].stored
                    THEN Awaits([us EXCEPT !.op.pc = "exists"], "error")
                    ELSE Awaits([us EXCEPT !.op.pc = "chosen",
                                           !.op.shortcode = custom], "info")
               ELSE Awaits([us EXCEPT !.op.pc = "chosen",
                                      !.op.shortcode = generated], "info")
          [] op.pc = "exists" ->
               Awaits([us EXCEPT !.op.pc = "catch",
                                 !.op.error = "Shortcode already exists"], "error")
          [] op.pc = "chosen" ->
               Awaits([us EXCEPT
                         !.shortUrls[op.shortcode] =
                             [stored |-> TRUE, originalUrl |-> op.request.url,
                              expiryDate |-> now + DefaultValidity * 60 * 1000,
                              isActive |-> TRUE],
                         !.clicks[op.shortcode] = 0,
                         !.op.pc = "final",
                         !.op.value = ShortLink(op.shortcode)], "info")
          [] OTHER ->
               Awaits([us EXCEPT !.op.pc = "done", !.op.outcome = "returned"], "none")

getOriginalUrlResumes(us) ==
    LET op == us.op
        shortUrl == us.shortUrls[op.request.shortcode]
    IN  CASE op.pc = "begin" ->
               IF ~shortUrl.stored
               THEN Awaits([us EXCEPT !.op.pc = "final", !.op.value = NullValue], "warn")
               ELSE IF now > shortUrl.expiryDate
               THEN Awaits([us EXCEPT !.op.pc = "expired"], "warn")
               ELSE Awaits([us EXCEPT !.op.pc = "final",
                                      !.op.value = OriginalUrl(shortUrl)], "info")
          [] op.pc = "expired" ->
               Awaits([us EXCEPT !.shortUrls[op.request.shortcode].isActive = FALSE,
                                 !.op.pc = "done", !.op.outcome = "returned",
                                 !.op.value = NullValue], "none")
          [] OTHER ->
               Awaits([us EXCEPT !.op.pc = "done", !.op.outcome = "returned"], "none")

getStatisticsResumes(us) ==
    LET op == us.op
        shortUrl == us.shortUrls[op.request.shortcode]
    IN  CASE op.pc = "begin" ->
               IF ~shortUrl.stored
               THEN Awaits([us EXCEPT !.op.pc = "final", !.op.value = NullValue], "warn")
               ELSE Awaits([us EXCEPT
                              !.op.pc = "final",
                              !.op.value =
                                  Statistics(shortUrl,
                                             us.clicks[op.request.shortcode])],
                           "info")
          [] OTHER ->
               Awaits([us EXCEPT !.op.pc = "done", !.op.outcome = "returned"], "none")

\* The awaited Log rejected with thrown: outside the catch block the
\* operation goes to `catch (error)`, which awaits Log(.., "error", ..);
\* inside it, the rejection leaves the operation in place of `throw error`.
logRejected(us, thrown) ==
    IF us.op.pc = "catch"
    THEN Awaits([us EXCEPT !.op.pc = "done", !.op.outcome = "threw",
                           !.op.error = thrown, !.op.rejected = TRUE], "none")
    ELSE Awaits([us EXCEPT !.op.pc = "catch", !.op.error = thrown,
                           !.op.rejected = TRUE], "error")

\* The awaited Log resolved: the operation runs to its next await or its end;
\* after the Log of the catch block that is `throw error`.
logResolved(us, generated) ==
    IF us.op.pc = "catch"
    THEN Awaits([us EXCEPT !.op.pc = "done", !.op.outcome = "threw"], "none")
    ELSE CASE us.op.name = "createShortUrl" -> createShortUrlResumes(us, generated)
           [] us.op.name \in {"getOriginalUrl", "redirectToOriginalUrl"} ->
                getOriginalUrlResumes(us)
           [] OTHER -> getStatisticsResumes(us)

\* recordClick(shortcode, clientInfo) after a Log it awaited settled: the
\* click is pushed after the first Log resolved; a rejected Log in the try
\* block goes to the catch block, which awaits Log and does not rethrow (a
\* Log rejecting there rejects recordClick, which its caller's .catch takes).
ClickAwaits == {"clickBegin", "clickFinal", "clickCatch"}
recordClickResumes(us, rejected) ==
    LET op == us.op
        shortcode == op.request.shortcode
    IN  IF op.pc = "clickCatch"
        THEN Awaits([us EXCEPT !.op.pc = "done",
                               !.op.rejected = (@ \/ rejected)], "none")
        ELSE IF rejected
        THEN Awaits([us EXCEPT !.op.pc = "clickCatch", !.op.rejected = TRUE], "error")
        ELSE IF op.pc = "clickBegin"
        THEN IF ~us.shortUrls[shortcode].stored
             THEN Awaits([us EXCEPT !.op.pc = "clickFinal"], "warn")
             ELSE Awaits([us EXCEPT !.clicks[shortcode] = @ + 1,
                                    !.op.clicked = TRUE,
                                    !.op.pc = "clickFinal"], "info")
        ELSE Awaits([us EXCEPT !.op.pc = "done"], "none")

\* urlController.ts: redirectToOriginalUrl once its getOriginalUrl has ended:
\* 500 from its catch block, 404 for null, else recordClick is called without
\* await (it runs to its first Log) and the response redirects.
redirectResponds(us) ==
    LET op == us.op
        shortcode == op.request.shortcode
    IN  IF op.outcome = "threw"
        THEN Awaits([us EXCEPT !.op.response = 500], "none")
        ELSE IF op.value = NullValue
        THEN Awaits([us EXCEPT !.op.response = 404], "none")
        ELSE Awaits([us EXCEPT !.op.response = 302,
                               !.redirects[shortcode] = @ + 1,
                               !.op.pc = "clickBegin"], "info")

\* The Log an operation awaits has settled (rejected with thrown, or
\* resolved) and the operation resumes.
operationResumes(us, rejected, thrown, generated) ==
    IF us.op.pc \in ClickAwaits
    THEN recordClickResumes(us, rejected)
    ELSE LET next == IF rejected THEN logRejected(us, thrown)
                     ELSE logResolved(us, generated)
         IN  IF us.op.name = "redirectToOriginalUrl" /\ next.us.op.pc = "done"
             THEN redirectResponds(next.us)
             ELSE next

\* Whether the operation is about to call generateShortcode().
Generates(op) ==
    op.name = "createShortUrl" /\ op.pc = "begin" /\ op.request.shortcode = ""

urlServiceResumes(c, generated) ==
    /\ urlService.ops[c].pc \notin {"idle", "done"}
    /\ calls[c].pc = "done"
    /\ IF Generates(urlService.ops[c]) /\ calls[c].outcome # "rejected"
       THEN ~urlService.shortUrls[generated].stored
       ELSE generated = "gen"
    /\ LET next == operationResumes(OpView(urlService, c),
                                    calls[c].outcome = "rejected",
                                    calls[c].result.kind, generated)
       IN  /\ urlService' = OpMerge(urlService, c, next.us)
           /\ calls' = [calls EXCEPT ![c] =
                            IF next.log = "none" THEN IdleCall
                            ELSE LogStarted(c, ServiceLog(next.log))]
    /\ loggers' = collect(loggers, globalLogger, inits, calls')
    /\ UNCHANGED <<globalLogger, inits, appConfig, now, validatorCall>>

\* The caller of the operation has seen what it did.
urlServiceReturns(c) ==
    /\ urlService.ops[c].pc = "done"
    /\ urlService' = [urlService EXCEPT !.ops[c] = NoUrlOp]
    /\ UNCHANGED <<loggers, globalLogger, inits, calls, appConfig, now, validatorCall>>

\* The clock passes the expiryDate of a stored short URL (between operations).
validityElapses(shortcode) ==
    /\ \A c \in DOMAIN urlService.ops : urlService.ops[c].pc = "idle"
    /\ urlService.shortUrls[shortcode].stored
    /\ urlService.shortUrls[shortcode].expiryDate >= now
    /\ now' = urlService.shortUrls[shortcode].expiryDate + 1
    /\ UNCHANGED <<loggers, globalLogger, inits, calls, appConfig, validatorCall,
                   urlService>>

InitUrl ==
    /\ loggers = <<>>
    /\ globalLogger = 0
    /\ inits = <<>>
    /\ calls = [c \in Callers |-> IdleCall]
    /\ appConfig \in {config \in Configs : config.retryAttempts \in {1, 2}}
    /\ now = 0
    /\ validatorCall = NoValidatorCall
    /\ urlService = NoUrlService

NextUrl ==
    \/ \E config \in Configs : initializeLogger(config)
    \/ \E i \in 1..MaxInits : authenticateOk(i)
    \/ \E i \in 1..MaxInits : initializeResume(i)
    \/ \E c \in Callers : postSucceeds(c)
    \/ \E c \in Callers, error \in {HttpError(400), HttpError(500)} : postFails(c, error)
    \/ \E c \in Callers : delayElapsed(c)
    \/ \E c \in Callers, request \in OneUrlRequests : createShortUrl(c, request)
    \/ \E c \in Callers, shortcode \in Shortcodes : getOriginalUrl(c, shortcode)
    \/ \E c \in Callers, shortcode \in Shortcodes : getStatistics(c, shortcode)
    \/ \E c \in Callers, generated \in Shortcodes : urlServiceResumes(c, generated)
    \/ \E c \in Callers : urlServiceReturns(c)
    \/ \E shortcode \in Shortcodes : validityElapses(shortcode)

SpecUrl == InitUrl /\ [][NextUrl]_vars

\* Two requests to create a short URL at once, on a Logger that delivers.
InitCreate ==
    /\ loggers = <<>>
    /\ globalLogger = 0
    /\ inits = <<>>
    /\ calls = [c \in TwoCallers |-> IdleCall]
    /\ appConfig \in {config \in Configs : config.retryAttempts = 1}
    /\ now = 0
    /\ validatorCall = NoValidatorCall
    /\ urlService = [NoUrlService EXCEPT !.ops = [c \in TwoCallers |-> NoUrlOp]]

NextCreate ==
    \/ \E config \in Configs : initializeLogger(config)
    \/ \E i \in 1..MaxInits : authenticateOk(i)
    \/ \E i \in 1..MaxInits : initializeResume(i)
    \/ \E c \in TwoCallers : postSucceeds(c)
    \/ \E c \in TwoCallers, request \in CustomRequests : createShortUrl(c, request)
    \/ \E c \in TwoCallers, generated \in Shortcodes : urlServiceResumes(c, generated)
    \/ \E c \in TwoCallers : urlServiceReturns(c)

SpecCreate == InitCreate /\ [][NextCreate]_vars

\* GET /:shortcode for a short URL created with its shortcode named, one
\* request at a time, on a Logger whose collector may reject a log.
InitRedirect ==
    /\ loggers = <<>>
    /\ globalLogger = 0
    /\ inits = <<>>
    /\ calls = [c \in Callers |-> IdleCall]
    /\ appConfig \in {config \in Configs : config.retryAttempts = 1}
    /\ now = 0
    /\ validatorCall = NoValidatorCall
    /\ urlService = NoUrlService

NextRedirect ==
    \/ \E config \in Configs : initializeLogger(config)
    \/ \E i \in 1..MaxInits : authenticateOk(i)
    \/ \E i \in 1..MaxInits : initializeResume(i)
    \/ \E c \in Callers : postSucceeds(c)
    \/ \E c \in Callers : postFails(c, HttpError(400))
    \/ \E c \in Callers, request \in OneUrlRequests \cap CustomRequests :
          createShortUrl(c, request)
    \/ \E c \in Callers, shortcode \in Shortcodes : redirectToOriginalUrl(c, shortcode)
    \/ \E c \in Callers : getStatistics(c, "abc")
    \/ \E c \in Callers, generated \in Shortcodes : urlServiceResumes(c, generated)
    \/ \E c \in Callers : urlServiceReturns(c)
    \/ \E shortcode \in Shortcodes : validityElapses(shortcode)

SpecRedirect == InitRedirect /\ [][NextRedirect]_vars

(***************************************************************************)
(* AuthService used directly                                               *)
(***************************************************************************)
\* One AuthService, loggers[1], built from the configuration; inits holds
\* the calls made on it, in the order they were made. A call records the
\* service's fields and the clock at the moment it was made (before,
\* calledAt), whether it issued a POST /auth (exchange), the answer it got
\* and when (expires_in, at), its rank among the answers that stored a token
\* (order), and whether clearToken() ran after its answer (cleared).
AuthExpiresIn == {3600, 7200}

\* What the POST /auth can fail with: an error with a response (status,
\* data.message when the body has one, else statusText), an error with a
\* request but no response, an error raised before the request was sent.
AuthFailures ==
    { [response |-> TRUE, request |-> TRUE, status |-> 401,
       dataMessage |-> "Invalid credentials", statusText |-> "Unauthorized",
       message |-> "Request failed with status code 401"],
      [response |-> TRUE, request |-> TRUE, status |-> 500,
       dataMessage |-> "", statusText |-> "Internal Server Error",
       message |-> "Request failed with status code 500"],
      [response |-> FALSE, request |-> TRUE, status |-> 0,
       dataMessage |-> "", statusText |-> "",
       message |-> "timeout of 10000ms exceeded"],
      [response |-> FALSE, request |-> FALSE, status |-> 0,
       dataMessage |-> "", statusText |-> "", message |-> ""] }

\* `Status ${status}: ${text}`, or the text alone (status 0).
getErrorMessageNoStatus(error) ==
    IF error.response
    THEN [status |-> 0, text |-> "Request failed"]
    ELSE IF error.request
    THEN [status |-> 0, text |-> "No response received from server"]
    ELSE [status |-> 0,
          text |-> IF error.message # "" THEN error.message
                   ELSE "Unknown error occurred"]
getErrorMessage(error) ==
    IF error.response
    THEN IF error.dataMessage # ""
         THEN [status |-> error.status, text |-> error.dataMessage]
         ELSE [status |-> error.status, text |-> error.statusText]
    ELSE IF error.request
    THEN [status |-> 0, text |-> "No response received from server"]
    ELSE [status |-> 0,
          text |-> IF error.message # "" THEN error.message
                   ELSE "Unknown error occurred"]

NoAuthError == [status |-> 0, text |-> ""]
NoAuthFailure ==
    [response |-> FALSE, request |-> FALSE, status |-> 0, dataMessage |-> "",
     statusText |-> "", message |-> "none"]

AuthCall(op) ==
    [logger |-> 1, global |-> FALSE, op |-> op, pc |-> "auth", result |-> "pending",
     before |-> loggers[1], calledAt |-> now,
     inFlight |-> Cardinality({j \in 1..Len(inits) : inits[j].pc = "auth"}),
     exchange |-> TRUE, expires_in |-> 0, at |-> 0, order |-> 0,
     cleared |-> FALSE, failure |-> NoAuthFailure, error |-> NoAuthError]

Processed == Cardinality({j \in 1..Len(inits) : inits[j].order # 0})

InitAuth ==
    /\ appConfig \in {config \in Configs : config.retryAttempts \in {1, 2}}
    /\ loggers = <<AuthServiceNew(appConfig)>>
    /\ globalLogger = 0
    /\ inits = <<>>
    /\ calls = [c \in Callers |-> IdleCall]
    /\ now = 0
    /\ urlService = NoUrlService
    /\ validatorCall = NoValidatorCall

\* authenticate(credentials), up to the await of the POST /auth.
callAuthenticate ==
    /\ Len(inits) < MaxAuthCalls
    /\ inits' = Append(inits, AuthCall("authenticate"))
    /\ UNCHANGED <<loggers, globalLogger, calls, appConfig, now, validatorCall,
                 urlService>>

\* refreshTokenIfNeeded(credentials): authenticate() only when the token is
\* not valid; else it returns at once.
callRefreshTokenAlways ==
    /\ Len(inits) < MaxAuthCalls
    /\ inits' = Append(inits, AuthCall("refresh"))
    /\ UNCHANGED <<loggers, globalLogger, calls, appConfig, now, validatorCall,
                 urlService>>
callRefreshTokenSingleFlight ==
    /\ Len(inits) < MaxAuthCalls
    /\ inits' = Append(inits,
          IF ~isTokenValid(loggers[1]) /\ \A j \in 1..Len(inits) : inits[j].pc # "auth"
          THEN AuthCall("refresh")
          ELSE [AuthCall("refresh") EXCEPT !.pc = "done", !.result = "ok",
                                          !.exchange = FALSE])
    /\ UNCHANGED <<loggers, globalLogger, calls, appConfig, now, validatorCall,
                 urlService>>
callRefreshTokenIfNeeded ==
    /\ Len(inits) < MaxAuthCalls
    /\ inits' = Append(inits,
          IF ~isTokenValid(loggers[1])
          THEN AuthCall("refresh")
          ELSE [AuthCall("refresh") EXCEPT !.pc = "done", !.result = "ok",
                                          !.exchange = FALSE])
    /\ UNCHANGED <<loggers, globalLogger, calls, appConfig, now, validatorCall,
                 urlService>>

\* The POST /auth of call i is answered with a token: authenticate() stores
\* token and expiry and returns (refreshTokenIfNeeded returns with it).
authenticateResponds(i, expires_in) ==
    /\ i \in 1..Len(inits)
    /\ inits[i].pc = "auth"
    /\ loggers' = [loggers EXCEPT ![1] = AuthStore(@, AuthToken(i), expires_in)]
    /\ inits' = [inits EXCEPT ![i].pc = "done", ![i].result = "ok",
                              ![i].expires_in = expires_in, ![i].at = now,
                              ![i].order = Processed + 1]
    /\ UNCHANGED <<globalLogger, calls, appConfig, now, validatorCall,
                 urlService>>

\* The POST /auth of call i fails: the catch block throws
\* "Authentication failed: " + getErrorMessage(error).
authenticateThrows(i, error) ==
    /\ i \in 1..Len(inits)
    /\ inits[i].pc = "auth"
    /\ inits' = [inits EXCEPT ![i].pc = "done",
                              ![i].result = "AuthenticationError",
                              ![i].failure = error,
                              ![i].error = getErrorMessage(error),
                              ![i].at = now]
    /\ UNCHANGED <<loggers, globalLogger, calls, appConfig, now, validatorCall,
                 urlService>>

\* clearToken()
callClearToken ==
    /\ loggers' = [loggers EXCEPT ![1] = clearToken(@)]
    /\ inits' = [j \in 1..Len(inits) |->
                    IF inits[j].order # 0 THEN [inits[j] EXCEPT !.cleared = TRUE]
                    ELSE inits[j]]
    /\ UNCHANGED <<globalLogger, calls, appConfig, now, validatorCall,
                 urlService>>

NextAuth ==
    \/ callAuthenticate
    \/ callRefreshTokenIfNeeded
    \/ callClearToken
    \/ \E i \in 1..MaxAuthCalls, expires_in \in AuthExpiresIn :
           authenticateResponds(i, expires_in)
    \/ \E i \in 1..MaxAuthCalls, error \in AuthFailures : authenticateThrows(i, error)
    \/ clockAdvances(1, TokenBufferMs)

SpecAuth == InitAuth /\ [][NextAuth]_vars

(***************************************************************************)
(* validateLogParameters called directly                                   *)
(***************************************************************************)
\* The arguments of the direct calls: the values of the taxonomy, the
\* invalid values and the upper-case spellings the validation tests pass,
\* and messages around the limits (empty, one character, 1000 and 1001
\* characters, whitespace only).
ValidatorStacks == VALID_STACKS \cup {Lit("mobile"), Upper("backend")}
ValidatorLevels == VALID_LEVELS \cup {Lit("critical"), Upper("info")}
ValidatorPackages == ALL_PACKAGES \cup {Lit("invalid"), Upper("handler")}
ValidatorMessages ==
    { Msg(0, 0, 0, FALSE), Msg(0, 1, 0, FALSE), Msg(0, MaxMessageLength, 0, FALSE),
      Msg(0, MaxMessageLength + 1, 0, FALSE), Msg(2, 0, 0, FALSE) }

InitValidate ==
    /\ loggers = <<>>
    /\ globalLogger = 0
    /\ inits = <<>>
    /\ calls = [c \in Callers |-> IdleCall]
    /\ appConfig = [retryAttempts |-> 0, retryDelay |-> 0, authToken |-> FALSE]
    /\ now = 0
    /\ urlService = NoUrlService
    /\ validatorCall \in
          { [stack |-> stack, level |-> level, package |-> pkg, message |-> message,
             pc |-> "called", result |-> NoValidation] :
                stack \in ValidatorStacks, level \in ValidatorLevels,
                pkg \in ValidatorPackages, message \in ValidatorMessages }

\* validateLogParameters(stack, level, pkg, message) runs and returns.
callValidateLogParameters ==
    /\ validatorCall.pc = "called"
    /\ validatorCall' =
          [validatorCall EXCEPT
              !.pc = "returned",
              !.result = validateLogParameters(validatorCall.stack, validatorCall.level,
                                               validatorCall.package,
                                               validatorCall.message)]
    /\ UNCHANGED <<loggers, globalLogger, inits, calls, appConfig, now, urlService>>

NextValidate == callValidateLogParameters

SpecValidate == InitValidate /\ [][NextValidate]_vars

(***************************************************************************)
(* normalizeValue called directly, on strings character by character       *)
(***************************************************************************)
\* A string is the sequence of its characters; the characters are two
\* letters in both cases, the underscore of cron_job and two whitespace
\* characters.
Letters == {"a", "b"}
Capitals == {"A", "B"}
Whitespace == {" ", "\t"}
Alphabet == Letters \cup Capitals \cup {"_"} \cup {" "}

toLowerCaseChar(ch) ==
    IF ch = "A" THEN "a" ELSE IF ch = "B" THEN "b" ELSE ch
toLowerCaseChars(s) == [i \in 1..Len(s) |-> toLowerCaseChar(s[i])]

RECURSIVE trimStart(_)
trimStart(s) ==
    IF s # <<>> /\ Head(s) \in Whitespace THEN trimStart(Tail(s)) ELSE s
RECURSIVE trimEnd(_)
trimEnd(s) ==
    IF s # <<>> /\ s[Len(s)] \in Whitespace
    THEN trimEnd(SubSeq(s, 1, Len(s) - 1)) ELSE s
trimChars(s) == trimEnd(trimStart(s))

\* value.toLowerCase().trim()
normalizeValueTrimStart(value) == trimStart(toLowerCaseChars(value))
normalizeValueChars(value) == trimChars(toLowerCaseChars(value))

NormalizeInputs == UNION {[1..n -> Alphabet] : n \in 0..MaxStrLen}

InitNormalize ==
    /\ loggers = <<>>
    /\ globalLogger = 0
    /\ inits = <<>>
    /\ calls = [c \in Callers |-> IdleCall]
    /\ appConfig = [retryAttempts |-> 0, retryDelay |-> 0, authToken |-> FALSE]
    /\ now = 0
    /\ urlService = NoUrlService
    /\ validatorCall \in
          { [value |-> value, pc |-> "called", result |-> <<>>] :
                value \in NormalizeInputs }

\* normalizeValue(value) runs and returns.
callNormalizeValue ==
    /\ validatorCall.pc = "called"
    /\ validatorCall' =
          [validatorCall EXCEPT !.pc = "returned",
                                !.result = normalizeValueChars(validatorCall.value)]
    /\ UNCHANGED <<loggers, globalLogger, inits, calls, appConfig, now, urlService>>

NextNormalize == callNormalizeValue

SpecNormalize == InitNormalize /\ [][NextNormalize]_vars

(***************************************************************************)
(* Properties                                                              *)
(***************************************************************************)
Running == {c \in Callers : calls[c].pc # "idle"}
Ended == {c \in Callers : calls[c].pc = "done"}
LoggerOf(c) == loggers[calls[c].logger]

\* The rules of the taxonomy that the normalized fields of an argument tuple
\* violate: stack, level and package lower-cased and trimmed, the message
\* trimmed.
RulesViolated(args) ==
    LET stack == normalizeValue(args.stack)
        level == normalizeValue(args.level)
        pkg == normalizeValue(args.package)
        message == MsgTrim(args.message)
    IN  (IF stack \notin {Lit("backend"), Lit("frontend")} THEN {"stack"} ELSE {})
        \cup (IF level \notin {Lit("debug"), Lit("info"), Lit("warn"), Lit("error"),
                              Lit("fatal")} THEN {"level"} ELSE {})
        \cup (IF pkg \notin ALL_PACKAGES THEN {"package"} ELSE {})
        \cup (IF stack \in {Lit("backend"), Lit("frontend")} /\ pkg \in ALL_PACKAGES
                 /\ pkg \notin SHARED_PACKAGES
                 /\ pkg \notin (IF stack = Lit("backend") THEN BACKEND_PACKAGES
                                ELSE FRONTEND_PACKAGES)
              THEN {"packageForStack"} ELSE {})
        \cup (IF MsgLength(message) = 0 THEN {"messageEmpty"} ELSE {})
        \cup (IF MsgLength(message) > 1000 THEN {"messageLength"} ELSE {})

Range(seq) == {seq[i] : i \in 1..Len(seq)}

\* C1: a call never makes more POSTs than the retryAttempts of its Logger,
\* which is the configured value, or 3 when the configuration sets none; a
\* call that reached no Logger makes none.
C1_PostsBounded ==
    \A c \in Running :
        IF calls[c].logger = 0 THEN calls[c].posts = 0
        ELSE /\ calls[c].posts <= LoggerOf(c).retryAttempts
             /\ LoggerOf(c).retryAttempts =
                    (IF appConfig.retryAttempts = 0 THEN 3 ELSE appConfig.retryAttempts)

C1_Witness ==
    \E c \in Ended :
        /\ appConfig.retryAttempts = 0
        /\ calls[c].posts = 3
        /\ calls[c].result.kind = "DeliveryError"

C3_Status400FailsAtOnce ==
    \A c \in Running :
        (calls[c].lastError.kind = "response" /\ calls[c].lastError.status = 400)
        => /\ calls[c].pc = "done"
           /\ calls[c].result.kind = "HttpError"
           /\ calls[c].result.error = calls[c].lastError
           /\ calls[c].attempt = calls[c].lastError.at
           /\ Len(calls[c].waits) = calls[c].attempt - 1
           /\ calls[c].posts <= calls[c].attempt
           /\ calls[c].via \notin ConvenienceOps => calls[c].outcome = "rejected"

C3_Witness ==
    \E c \in Ended :
        /\ calls[c].result.kind = "HttpError"
        /\ calls[c].result.error.status = 400
        /\ calls[c].attempt = 2
        /\ calls[c].posts = 2
        /\ Len(calls[c].waits) = 1

\* C4: once an attempt of a call has received a response with any status
\* 400..499, the call has ended with that error, without retry and without
\* a backoff wait after it.
C4_Status4xxFailsAtOnce ==
    \A c \in Running :
        (calls[c].lastError.kind = "response"
            /\ calls[c].lastError.status \in 400..499)
        => /\ calls[c].pc = "done"
           /\ calls[c].result.kind = "HttpError"
           /\ calls[c].result.error = calls[c].lastError
           /\ Len(calls[c].waits) = calls[c].attempt - 1

\* C5: a call all of whose retryAttempts attempts failed with a 5xx status
\* or without a response has ended with the delivery error that carries the
\* error of the last attempt, after exactly retryAttempts POSTs and exactly
\* retryAttempts-1 waits.
C5_ExhaustedCarriesLastError ==
    \A c \in Running :
        (calls[c].logger # 0 /\ calls[c].transient = LoggerOf(c).retryAttempts)
        => /\ calls[c].pc = "done"
           /\ calls[c].result.kind = "DeliveryError"
           /\ calls[c].result.error.at = LoggerOf(c).retryAttempts
           /\ isTransient(calls[c].result.error)
           /\ calls[c].posts = LoggerOf(c).retryAttempts
           /\ Len(calls[c].waits) = LoggerOf(c).retryAttempts - 1

C5_Witness ==
    \E c \in Ended :
        /\ calls[c].transient = 3
        /\ calls[c].result.kind = "DeliveryError"
        /\ calls[c].result.error = [kind |-> "noResponse", status |-> 0, at |-> 3]
        /\ Len(calls[c].waits) = 2

\* C6: a call on an existing facade, initialized or not, whose normalized
\* fields violate a rule has ended with a validation error that lists every
\* violated rule, without any POST and without any wait.
C6_InvalidRecordRejected ==
    \A c \in Running :
        (calls[c].logger # 0 /\ RulesViolated(calls[c].args) # {})
        => /\ calls[c].pc = "done"
           /\ calls[c].result.kind = "ValidationError"
           /\ RulesViolated(calls[c].args) \subseteq Range(calls[c].result.errors)
           /\ calls[c].posts = 0
           /\ calls[c].waits = <<>>

\* C7: the promise of a level-specific convenience operation never rejects,
\* whatever the underlying Log ended with.
C7_ConvenienceNeverRaises ==
    \A c \in Ended :
        calls[c].via \in ConvenienceOps => calls[c].outcome = "resolved"

C7_Witness ==
    \E c \in Ended :
        /\ calls[c].via = "logError"
        /\ calls[c].result.kind = "DeliveryError"
        /\ calls[c].outcome = "resolved"

\* C8: a call with a valid record that was made after logout(), before any
\* initialize() call was made again on that Logger, has ended with the
\* not-initialized error and made no POST.
C8_AfterLogoutNotInitialized ==
    \A c \in Running :
        (calls[c].afterLogout /\ RulesViolated(calls[c].args) = {})
        => /\ calls[c].pc = "done"
           /\ calls[c].result.kind = "NotInitialized"
           /\ calls[c].posts = 0

\* C9: while initializeLogger was never called, getLogger() is null, and a
\* call made then, with valid or invalid arguments, has ended with the
\* not-initialized error and made no POST.
C9_NeverInitialized ==
    /\ Len(inits) = 0 => getLogger = 0
    /\ \A c \in Running :
          calls[c].beforeInit
          => /\ calls[c].pc = "done"
             /\ calls[c].result.kind = "NotInitialized"
             /\ calls[c].posts = 0
             /\ calls[c].logger = 0

C9_Witness ==
    \E c \in Ended :
        /\ calls[c].beforeInit
        /\ calls[c].via = "Log"
        /\ RulesViolated(calls[c].args) # {}
        /\ calls[c].result.kind = "NotInitialized"
        /\ calls[c].outcome = "rejected"

\* C10: when the initializeLogger call that installed the current facade has
\* failed with the authentication error, getLogger() does not return a facade
\* whose initialized flag is false or whose token is absent.
C10_NoHalfInitializedFacade ==
    \A i \in 1..Len(inits) :
        (inits[i].global /\ inits[i].result = "AuthenticationError"
            /\ inits[i].logger = getLogger)
        => ~(\/ ~loggers[getLogger].isInitialized
             \/ loggers[getLogger].authToken = NullToken)

\* The steps in which caller c hands a POST to the transport.
PostBegins(c) == calls'[c].posts > calls[c].posts

\* C11: when an attempt finds the stored token not valid (none of the
\* buffer left, or expired), the POST of that attempt carries a token
\* obtained after the check: not the one that was stored, and one that is
\* valid at that moment.
C11_InvalidTokenRefreshed ==
    [][\A c \in Callers :
          (PostBegins(c) /\ ~isTokenValid(loggers[calls'[c].logger]))
          => /\ calls'[c].header.token # loggers[calls'[c].logger].authToken
             /\ isTokenValid(loggers'[calls'[c].logger])]_vars

\* C12: isTokenValid() is true exactly when a successful authenticate() has
\* stored a token that no clearToken() removed since, and the clock is less
\* than its expiry (the time of the answer plus expires_in seconds) minus
\* five minutes; so it is false from that instant on, on a Logger no
\* authenticate() succeeded for, and after clearToken().
C12_TokenValidity ==
    /\ [](\A l \in 1..Len(loggers) :
            /\ isTokenValid(loggers[l])
                <=> /\ loggers[l].authToken # NullToken
                    /\ loggers[l].issued # NotIssued
                    /\ now < loggers[l].issued.at
                                + loggers[l].issued.expires_in * 1000 - 5 * 60 * 1000
            /\ (\A i \in 1..Len(inits) :
                    inits[i].logger = l => inits[i].pc = "auth"
                                           \/ inits[i].result = "AuthenticationError")
                => ~isTokenValid(loggers[l]))
    /\ [][\A l \in 1..Len(loggers) :
            (loggers[l].authToken # NullToken /\ loggers'[l].authToken = NullToken)
            => ~isTokenValid(loggers'[l])]_vars

\* The clock stands at expiry minus five minutes exactly, one millisecond
\* after the token of an initialized Logger was still valid.
C12_Witness ==
    \E l \in 1..Len(loggers) :
        /\ loggers[l].isInitialized
        /\ loggers[l].issued # NotIssued
        /\ now > loggers[l].issued.at
        /\ now = loggers[l].tokenExpiry - 300000
        /\ ~isTokenValid(loggers[l])

\* C13: every step that hands a POST to the transport gives it the header
\* "Bearer <token>" with the token the AuthService stores at that moment, and
\* a token is stored then; no POST is in flight without such a header.
C13_PostCarriesStoredToken ==
    /\ [](\A c \in Callers :
            calls[c].pc = "posting"
            => /\ calls[c].header.scheme = "Bearer"
               /\ calls[c].header.token # NullToken)
    /\ [][\A c \in Callers :
            PostBegins(c)
            => /\ loggers[calls'[c].logger].authToken # NullToken
               /\ calls'[c].header =
                      [scheme |-> "Bearer",
                       token |-> loggers[calls'[c].logger].authToken]]_vars

\* The second attempt of a call is in flight with the token of a second
\* authenticate, stored while the call waited after its first attempt.
C13_Witness ==
    \E c \in Callers :
        /\ calls[c].pc = "posting"
        /\ calls[c].attempt = 2
        /\ calls[c].posts = 2
        /\ calls[c].header = [scheme |-> "Bearer", token |-> AuthToken(2)]
        /\ LoggerOf(c).authToken = AuthToken(2)

\* C14: all the POSTs of one call carry one and the same body, the record
\* built after validation, whatever the number of retries.
C14_RetriesResendSameBody ==
    \A c \in Running :
        /\ Cardinality(calls[c].bodies) <= 1
        /\ calls[c].posts > 0 => calls[c].bodies = {calls[c].req}
        /\ calls[c].posts = 0 => calls[c].bodies = {}

C14_Witness ==
    \E c \in Ended :
        /\ calls[c].posts = 3
        /\ Len(calls[c].waits) = 2
        /\ calls[c].bodies = {calls[c].req}
        /\ calls[c].req.message = Msg(0, 5, 0, TRUE)

\* C15: every body POSTed has its four fields lower-cased and trimmed: it
\* is the argument tuple with each of stack, level, package and message
\* lower-cased and trimmed.
C15_BodyLowerCasedTrimmed ==
    \A c \in Running :
        \A b \in calls[c].bodies :
            /\ b.stack = normalizeValue(calls[c].args.stack)
            /\ b.level = normalizeValue(calls[c].args.level)
            /\ b.package = normalizeValue(calls[c].args.package)
            /\ b.message = MsgTrim(MsgLower(calls[c].args.message))

\* C16: every body POSTed satisfies the taxonomy and has a message of 1 to
\* 1000 characters after trimming; a call whose message is only whitespace
\* ends with a validation error and makes no POST.
C16_TransmittedRecordValid ==
    \A c \in Running :
        /\ \A b \in calls[c].bodies :
              /\ b.stack \in {Lit("backend"), Lit("frontend")}
              /\ b.level \in {Lit("debug"), Lit("info"), Lit("warn"), Lit("error"),
                               Lit("fatal")}
              /\ b.package \in SHARED_PACKAGES
                               \cup (IF b.stack = Lit("backend") THEN BACKEND_PACKAGES
                                     ELSE FRONTEND_PACKAGES)
              /\ MsgLength(MsgTrim(b.message)) \in 1..1000
        /\ (calls[c].logger # 0 /\ calls[c].args.message.core = 0)
            => /\ calls[c].result.kind = "ValidationError"
               /\ calls[c].posts = 0

\* The taxonomy as the specification lists it.
Words(names) == {Lit(w) : w \in names}
TheStacks == Words({"backend", "frontend"})
TheLevels == Words({"debug", "info", "warn", "error", "fatal"})
SharedSet == Words({"auth", "config", "middleware", "utils"})
BackendSet ==
    Words({"cache", "controller", "cron_job", "db", "domain", "handler",
           "repository", "route", "service"})
FrontendSet == Words({"api", "component", "hook", "page", "state", "style"})
OwnSet(stack) == IF stack = Lit("backend") THEN BackendSet ELSE FrontendSet
Returned == validatorCall.pc = "returned"

\* C17: for a stack of the two, a level of the five, a package of the 19
\* and a valid message, validateLogParameters answers isValid = true
\* exactly when the package is shared or belongs to the stack's own set.
C17_ValidIffSharedOrOwn ==
    (/\ Returned
     /\ validatorCall.stack \in TheStacks
     /\ validatorCall.level \in TheLevels
     /\ validatorCall.package \in SharedSet \cup BackendSet \cup FrontendSet
     /\ validatorCall.message.core \in 1..1000
     /\ MsgLength(validatorCall.message) <= 1000)
    => (validatorCall.result.isValid
        <=> validatorCall.package \in SharedSet \cup OwnSet(validatorCall.stack))

\* A shared package is accepted under the frontend stack.
C17_Witness ==
    /\ Returned
    /\ validatorCall.stack = Lit("frontend")
    /\ validatorCall.level = Lit("fatal")
    /\ validatorCall.package = Lit("middleware")
    /\ validatorCall.message = Msg(0, 1000, 0, FALSE)
    /\ validatorCall.result.isValid

\* C18: the "not valid for stack" error is in the list exactly when the
\* stack is one of the two, the package one of the 19 and the package
\* neither shared nor of that stack, whatever the level and the message;
\* (backend, critical, handler) gives the level error without it.
C18_NotValidForStackExactly ==
    Returned
    => /\ "packageForStack" \in Range(validatorCall.result.errors)
          <=> /\ validatorCall.stack \in TheStacks
              /\ validatorCall.package \in SharedSet \cup BackendSet \cup FrontendSet
              /\ validatorCall.package
                    \notin SharedSet \cup OwnSet(validatorCall.stack)
       /\ (/\ validatorCall.stack = Lit("backend")
           /\ validatorCall.level = Lit("critical")
           /\ validatorCall.package = Lit("handler"))
          => /\ "level" \in Range(validatorCall.result.errors)
             /\ "packageForStack" \notin Range(validatorCall.result.errors)

\* (frontend, db) with an invalid level and an empty message: the error is
\* reported next to the two others.
C18_Witness ==
    /\ Returned
    /\ validatorCall.stack = Lit("frontend")
    /\ validatorCall.level = Lit("critical")
    /\ validatorCall.package = Lit("db")
    /\ validatorCall.message = Msg(0, 0, 0, FALSE)
    /\ validatorCall.result.errors = <<"level", "packageForStack", "messageEmpty">>

\* The rules of section 4.1 that the arguments of a direct call violate.
ViolatedRules ==
    (IF validatorCall.stack \notin TheStacks THEN {"stack"} ELSE {})
    \cup (IF validatorCall.level \notin TheLevels THEN {"level"} ELSE {})
    \cup (IF validatorCall.package \notin SharedSet \cup BackendSet \cup FrontendSet
          THEN {"package"} ELSE {})
    \cup (IF /\ validatorCall.stack \in TheStacks
             /\ validatorCall.package \in SharedSet \cup BackendSet \cup FrontendSet
             /\ validatorCall.package \notin SharedSet \cup OwnSet(validatorCall.stack)
          THEN {"packageForStack"} ELSE {})
    \cup (IF MsgLength(MsgTrim(validatorCall.message)) = 0
          THEN {"messageEmpty"} ELSE {})
    \cup (IF MsgLength(validatorCall.message) > 1000 THEN {"messageLength"} ELSE {})

\* C19: the error list holds exactly one error for each violated rule
\* (stack, level, package, package for stack, message non-empty after
\* trimming, message length), and isValid is true exactly when it is empty.
C19_EveryViolatedRuleReported ==
    Returned
    => /\ Range(validatorCall.result.errors) = ViolatedRules
       /\ Len(validatorCall.result.errors) = Cardinality(ViolatedRules)
       /\ validatorCall.result.isValid <=> validatorCall.result.errors = <<>>

C21_ValidationCaseInsensitive ==
    Returned
    => validatorCall.result.isValid
         = validateLogParameters(normalizeValue(validatorCall.stack),
                                 normalizeValue(validatorCall.level),
                                 normalizeValue(validatorCall.package),
                                 validatorCall.message).isValid

\* Spellings of a string that differ from it only in letter case and in
\* leading or trailing whitespace.
toUpperCaseChar(ch) ==
    IF ch = "a" THEN "A" ELSE IF ch = "b" THEN "B" ELSE ch
Respelled(s) ==
    LET cased == {s, [i \in 1..Len(s) |-> toUpperCaseChar(s[i])],
                  [i \in 1..Len(s) |->
                      IF i % 2 = 1 THEN toUpperCaseChar(s[i]) ELSE s[i]]}
        pads == {<<>>, <<" ">>, <<"\t", " ">>}
    IN  {lead \o t \o trail : lead \in pads, t \in cased, trail \in pads}

\* C22: normalizeValue is idempotent, and every spelling of a string that
\* differs from it only in letter case or in leading and trailing
\* whitespace normalizes to the same value; the value has no upper-case
\* letter and no whitespace at either end.
C22_NormalizeIdempotentInsensitive ==
    Returned
    => /\ normalizeValueChars(validatorCall.result) = validatorCall.result
       /\ \A t \in Respelled(validatorCall.value) :
              normalizeValueChars(t) = validatorCall.result
       /\ \A i \in 1..Len(validatorCall.result) :
              validatorCall.result[i] \notin Capitals
       /\ validatorCall.result # <<>>
          => /\ validatorCall.result[1] \notin Whitespace
             /\ validatorCall.result[Len(validatorCall.result)] \notin Whitespace

\* " Ab" was normalized to "ab", as "AB" is.
C22_Witness ==
    /\ Returned
    /\ validatorCall.value = <<" ", "A", "b">>
    /\ validatorCall.result = <<"a", "b">>
    /\ normalizeValueChars(<<"A", "B">>) = <<"a", "b">>

\* The AuthService of SpecAuth and the history of the calls made on it.
Service == loggers[1]
AuthCalls == 1..Len(inits)
Answered == {i \in AuthCalls : inits[i].order # 0}
LastAnswered == CHOOSE i \in Answered : \A j \in Answered : inits[j].order <= inits[i].order
\* The token was valid when call i was made: a token was stored, and the
\* clock was below the expiry its authenticate answer gave minus 5 minutes.
ValidAtCall(i) ==
    /\ inits[i].before.authToken # NullToken
    /\ inits[i].before.issued # NotIssued
    /\ inits[i].calledAt < inits[i].before.issued.at
                             + inits[i].before.issued.expires_in * 1000 - 5 * 60 * 1000
\* The state of the Token Manager, from its history: authenticated when an
\* authenticate was answered with a token and no clearToken() ran since.
Authenticated == \E i \in Answered : ~inits[i].cleared
CallMade == Len(inits') = Len(inits) + 1
AnswerStored(i) == i \in AuthCalls /\ inits[i].order = 0 /\ inits'[i].order # 0

\* C23: a refreshTokenIfNeeded call issues an authenticate exchange exactly
\* when the token was not valid when it was called; a call that finds the
\* token valid returns at once and leaves token and expiry as they were.
C23_RefreshOnlyWhenInvalid ==
    /\ [](\A i \in AuthCalls :
            inits[i].op = "refresh" => (inits[i].exchange <=> ~ValidAtCall(i)))
    /\ [][(CallMade /\ inits'[Len(inits')].op = "refresh" /\ isTokenValid(Service))
          => /\ loggers' = loggers
             /\ inits'[Len(inits')].pc = "done"
             /\ ~inits'[Len(inits')].exchange]_vars

C23_Witness ==
    \E i \in AuthCalls :
        /\ inits[i].op = "refresh"
        /\ ~inits[i].exchange
        /\ ValidAtCall(i)
        /\ inits[i].before = Service
        /\ \E j \in AuthCalls : inits[j].op = "refresh" /\ inits[j].exchange

\* C24 as stated: the header is absent exactly while the Token Manager is
\* unauthenticated (no authenticate answered since construction or since
\* the last clearToken), and "Bearer <stored token>" otherwise.
C24_HeaderNoneIffUnauthenticated ==
    /\ getAuthorizationHeader(Service) = NoHeader <=> ~Authenticated
    /\ Authenticated
       => getAuthorizationHeader(Service)
            = [scheme |-> "Bearer", token |-> AuthToken(LastAnswered)]

\* C24 amended: the header is absent exactly when no token is stored, which
\* is the unauthenticated state unless the configuration provided an
\* initial authToken; in the authenticated state it is "Bearer" with the
\* token of the last answer; an answered authenticate stores the token of
\* the answer with expiry now + expires_in seconds; clearToken() leaves the
\* header absent and the token not valid, and unauthenticated the token is
\* never valid.
C24_TokenManagerStates ==
    /\ [](/\ getAuthorizationHeader(Service) = NoHeader
               <=> Service.authToken = NullToken
          /\ Authenticated
             => getAuthorizationHeader(Service)
                  = [scheme |-> "Bearer", token |-> AuthToken(LastAnswered)]
          /\ ~Authenticated
             => /\ ~isTokenValid(Service)
                /\ getAuthorizationHeader(Service)
                     \in {NoHeader, [scheme |-> "Bearer", token |-> ConfigToken]}
                /\ ~appConfig.authToken => getAuthorizationHeader(Service) = NoHeader)
    /\ [][(\A i \in AuthCalls :
              AnswerStored(i)
              => /\ Authenticated'
                 /\ loggers'[1].authToken = AuthToken(i)
                 /\ loggers'[1].tokenExpiry = now + inits'[i].expires_in * 1000)
          /\ ((Authenticated /\ ~Authenticated')
              => /\ getAuthorizationHeader(loggers'[1]) = NoHeader
                 /\ ~isTokenValid(loggers'[1]))]_vars

\* An authenticate was answered, clearToken() ran, and the header is absent.
C24_Witness ==
    /\ \E i \in Answered : inits[i].cleared
    /\ ~Authenticated
    /\ getAuthorizationHeader(Service) = NoHeader
    /\ ~isTokenValid(Service)

\* C25: nothing excludes a second check-then-refresh while one is under
\* way: a refreshTokenIfNeeded call that finds the token not valid issues
\* its own exchange also when exchanges are in flight, and every answer
\* overwrites the stored token.
C25_RefreshNotSingleFlight ==
    /\ [](\A i \in AuthCalls :
            (inits[i].op = "refresh" /\ inits[i].inFlight > 0 /\ ~ValidAtCall(i))
            => inits[i].exchange)
    /\ [][\A i \in AuthCalls :
             AnswerStored(i) => loggers'[1].authToken = AuthToken(i)]_vars

\* Two refreshTokenIfNeeded calls both found the token not valid, the
\* second while the exchange of the first was in flight; both were
\* answered and the later answer replaced the token of the earlier.
C25_Witness ==
    \E i, j \in AuthCalls :
        /\ i # j
        /\ inits[i].op = "refresh" /\ inits[j].op = "refresh"
        /\ ~ValidAtCall(i) /\ ~ValidAtCall(j)
        /\ inits[j].inFlight = 1
        /\ inits[i].order = 1 /\ inits[j].order = 2
        /\ Service.authToken = AuthToken(j)

\* C26: whenever answers have stored tokens and clearToken() did not run
\* after the last of them, the stored token and the stored expiry are those
\* of the answer processed last: its token, and its arrival time plus its
\* expires_in seconds.
C26_LastAnswerWins ==
    (Answered # {} /\ ~inits[LastAnswered].cleared)
    => /\ Service.authToken = AuthToken(LastAnswered)
       /\ Service.tokenExpiry
            = inits[LastAnswered].at + inits[LastAnswered].expires_in * 1000

\* Two authenticate calls were in flight together and answered in the
\* reverse order, the later answer with the shorter lifetime.
C26_Witness ==
    /\ Len(inits) >= 2
    /\ inits[1].op = "authenticate" /\ inits[2].op = "authenticate"
    /\ inits[2].inFlight = 1
    /\ inits[2].order = 1 /\ inits[2].expires_in = 7200
    /\ inits[1].order = 2 /\ inits[1].expires_in = 3600
    /\ Service.authToken = AuthToken(1)
    /\ Service.tokenExpiry = inits[1].at + 3600000

\* C29: a failed authenticate ends with the authentication error, which
\* carries the status and the message of the response when the server
\* answered (the body's message, else the status text), and the failure
\* leaves the stored token and expiry as they were.
C29_FailedAuthenticateKeepsToken ==
    /\ [](\A i \in AuthCalls :
            /\ inits[i].result = "AuthenticationError"
               => /\ inits[i].failure \in AuthFailures
                  /\ (inits[i].failure.response
                      => /\ inits[i].error.status = inits[i].failure.status
                         /\ inits[i].error.text
                              = (IF inits[i].failure.dataMessage # ""
                                 THEN inits[i].failure.dataMessage
                                 ELSE inits[i].failure.statusText))
                  /\ inits[i].error.text # ""
            /\ inits[i].failure # NoAuthFailure
               => inits[i].result = "AuthenticationError")
    /\ [][\A i \in AuthCalls :
             (inits[i].pc = "auth" /\ inits'[i].result = "AuthenticationError")
             => /\ loggers'[1].authToken = loggers[1].authToken
                /\ loggers'[1].tokenExpiry = loggers[1].tokenExpiry]_vars

\* A second authenticate failed with 401 while the token of the first was
\* stored; it is still stored and valid.
C29_Witness ==
    /\ Len(inits) = 2
    /\ inits[1].result = "ok"
    /\ inits[2].result = "AuthenticationError"
    /\ inits[2].error = [status |-> 401, text |-> "Invalid credentials"]
    /\ Service.authToken = AuthToken(1)
    /\ isTokenValid(Service)

\* C27: a Log call never waits for another caller's call: made on an
\* initialized logger with a stored token it sends its POST in the same
\* step, whatever the other caller's call is doing (also while that one is
\* in delay()), its POST can be answered while the other is still in
\* delay(), and no step of one call changes the other caller's call.
C27_SubmitsDoNotBlock ==
    [][\A c \in TwoCallers :
         /\ (/\ calls[c].pc = "idle" /\ calls'[c].pc # "idle"
             /\ globalLogger # 0
             /\ loggers[globalLogger].isInitialized
             /\ loggers[globalLogger].authToken # NullToken)
            => /\ calls'[c].pc = "posting"
               /\ calls'[c].posts = 1
         /\ (calls[c].pc = "posting" /\ calls'[c].pc = "done"
             /\ calls'[c].result.kind = "ok")
            => \A d \in TwoCallers \ {c} : calls'[d] = calls[d]
         /\ (calls[c].pc = "waiting" /\ calls'[c] # calls[c])
            => /\ \A d \in TwoCallers \ {c} : calls'[d] = calls[d]
               /\ calls'[c].attempt = calls[c].attempt + 1]_vars

\* c1 is in its first delay(); c2 was called while c1 was in it, has sent
\* its POST and has ended with success, and c1 has not resumed.
C27_Witness ==
    /\ calls["c1"].pc = "waiting"
    /\ calls["c1"].attempt = 1
    /\ Len(calls["c1"].waits) = 1
    /\ calls["c2"].suspended = {"c1"}
    /\ calls["c2"].pc = "done"
    /\ calls["c2"].posts = 1
    /\ calls["c2"].result.kind = "ok"
    /\ calls["c2"].outcome = "resolved"

\* C28: a Log call that has begun to deliver (a POST in flight, or in
\* delay()) ends, given that every POST completes and every timer fires;
\* and a call that has ended has ended with success or with a failure, after
\* at most retryAttempts attempts and POSTs.
C28_SubmitTerminates ==
    /\ \A c \in Callers :
          (calls[c].pc \in {"posting", "waiting"}) ~> (calls[c].pc = "done")
    /\ [](\A c \in Callers :
            /\ calls[c].pc \in {"idle", "posting", "waiting", "done"}
            /\ calls[c].pc = "done"
               => /\ calls[c].result.kind
                       \in {"ok", "ValidationError", "NotInitialized",
                            "HttpError", "DeliveryError"}
                  /\ calls[c].outcome \in {"resolved", "rejected"}
                  /\ calls[c].result.kind = "ok" <=> calls[c].outcome = "resolved"
                  /\ calls[c].logger # 0
                     => /\ calls[c].attempt <= loggers[calls[c].logger].retryAttempts
                        /\ calls[c].posts <= loggers[calls[c].logger].retryAttempts)

\* A call has ended with the delivery error after using all the attempts of
\* a logger with more than one, every POST having failed and every wait
\* having ended.
C28_Witness ==
    \E c \in Callers :
        /\ calls[c].pc = "done"
        /\ calls[c].result.kind = "DeliveryError"
        /\ loggers[calls[c].logger].retryAttempts >= 2
        /\ calls[c].posts = loggers[calls[c].logger].retryAttempts
        /\ Len(calls[c].waits) = calls[c].posts - 1

\* What an operation produces when every Log it awaits succeeds, from the
\* map and the clock at its call: createShortUrl throws "Shortcode already
\* exists" for a custom shortcode in the map and else returns the short link
\* of the custom or of a free generated shortcode; getOriginalUrl returns
\* null for a shortcode not in the map or expired, else the original URL;
\* getStatistics returns null for a shortcode not in the map, else the
\* statistics.
Threw(error) == [outcome |-> "threw", value |-> NoValue, error |-> error]
Returns(value) == [outcome |-> "returned", value |-> value, error |-> ""]
ResultWithLogging(op) ==
    LET sc == op.request.shortcode
    IN  CASE op.name = "createShortUrl" ->
               IF sc # ""
               THEN IF op.before[sc].stored THEN {Threw("Shortcode already exists")}
                    ELSE {Returns(ShortLink(sc))}
               ELSE {Returns(ShortLink(g)) : g \in {h \in Shortcodes : ~op.before[h].stored}}
          [] op.name = "getOriginalUrl" ->
               IF ~op.before[sc].stored \/ op.at > op.before[sc].expiryDate
               THEN {Returns(NullValue)}
               ELSE {Returns(OriginalUrl(op.before[sc]))}
          [] op.name = "getStatistics" ->
               IF ~op.before[sc].stored THEN {Returns(NullValue)}
               ELSE {Returns(Statistics(op.before[sc], op.clicksBefore[sc]))}
          [] OTHER -> {}
Produced(op) == [outcome |-> op.outcome, value |-> op.value, error |-> op.error]

\* C30: an operation of UrlService that has ended after a Log it awaited
\* rejected has produced what it produces when logging succeeds.
C30_LogFailureNeverFailsOperation ==
    \A c \in DOMAIN urlService.ops :
        LET op == urlService.ops[c]
        IN  (/\ op.name \in {"createShortUrl", "getOriginalUrl", "getStatistics"}
             /\ op.pc = "done"
             /\ op.rejected)
            => Produced(op) \in ResultWithLogging(op)

\* The Logger a call in progress runs on, and whether logout() ran on it
\* while the call was suspended in its retry loop (the call was made before
\* the logout, and no initialize() was started on the Logger since).
Suspended(c) == calls[c].pc \in {"posting", "waiting"}
LoggedOutDuring(c) ==
    Suspended(c) /\ ~calls[c].afterLogout /\ LoggerOf(c).outSince

C35_LogoutStays ==
    (getLogger # 0 /\ loggers[getLogger].outSince)
    => /\ ~loggers[getLogger].isInitialized
       /\ loggers[getLogger].authToken = NullToken

\* C36: when the latest initializeLogger call has failed at authentication
\* and the initializeLogger call before it had succeeded, getLogger() returns
\* the Logger of that earlier call.
C36_FailedInitKeepsFacade ==
    \A i, j \in 1..Len(inits) :
        (/\ j < i
         /\ inits[i].global /\ inits[i].result = "AuthenticationError"
         /\ inits[j].global /\ inits[j].result = "ok"
         /\ \A k \in 1..Len(inits) : (k # i /\ k > j) => ~inits[k].global)
        => getLogger = inits[j].logger

\* C37: a call that has received a 2xx response has ended with success and
\* returned the logID of that response, the answer to its last POST; from
\* then on it sends no POST and enters no wait (nothing of it changes until
\* the caller takes the outcome), so it receives no second 2xx response.
C37_OneSuccessfulResponse ==
    /\ [](\A c \in Callers :
            /\ calls[c].logID # 0
               => /\ calls[c].pc = "done"
                  /\ calls[c].result.kind = "ok"
                  /\ calls[c].outcome = "resolved"
                  /\ calls[c].logID = calls[c].posts
                  /\ Len(calls[c].waits) = calls[c].attempt - 1
            /\ (calls[c].pc = "done" /\ calls[c].result.kind = "ok")
               => calls[c].logID # 0)
    /\ [][\A c \in Callers :
             calls[c].logID # 0
             => \/ calls'[c] = calls[c]
                \/ calls'[c] = IdleCall]_vars

\* A call was answered 2xx on its second POST, after one failed POST and one
\* wait on a logger with three attempts, and returned that answer's logID.
C37_Witness ==
    \E c \in Callers :
        /\ calls[c].via = "Log"
        /\ calls[c].logID = 2
        /\ calls[c].posts = 2
        /\ LoggerOf(c).retryAttempts = 3
        /\ calls[c].pc = "done"
        /\ calls[c].outcome = "resolved"

\* C38: a call that has ended with the not-initialized error on a facade
\* that existed was made with a valid record (an invalid one fails at the
\* validation, which runs first); a call made while no facade existed has
\* ended with the not-initialized error whatever its record; and the
\* validation error is raised only on a facade that exists.
C38_ValidationBeforeInitializedCheck ==
    \A c \in Ended :
        /\ (calls[c].logger # 0 /\ calls[c].result.kind = "NotInitialized")
           => RulesViolated(calls[c].args) = {}
        /\ calls[c].logger = 0
           => /\ calls[c].result.kind = "NotInitialized"
              /\ calls[c].result.errors = <<"initializeLogger">>
        /\ calls[c].result.kind = "ValidationError" => calls[c].logger # 0

\* C39: the step in which a call ends with a failure (validation error,
\* not-initialized error, HTTP 400, delivery error after the last attempt)
\* changes nothing of the facade: getLogger(), and the initialized flag, the
\* token and the expiry of every Logger stay as they were; and so does every
\* other step of a call.
C39_FailedSubmitChangesNothing ==
    [][\A c \in Callers :
         (calls'[c] # calls[c] /\ calls'[c].pc # "idle")
         => /\ globalLogger' = globalLogger
            /\ Len(loggers') = Len(loggers)
            /\ \A l \in 1..Len(loggers) :
                  /\ loggers'[l].isInitialized = loggers[l].isInitialized
                  /\ loggers'[l].authToken = loggers[l].authToken
                  /\ loggers'[l].tokenExpiry = loggers[l].tokenExpiry]_vars

\* A call has ended with the HTTP 400 error on a facade that is still
\* initialized and still holds the token and expiry of its authenticate.
C39_Witness ==
    \E c \in Callers :
        /\ calls[c].pc = "done"
        /\ calls[c].result.kind = "HttpError"
        /\ calls[c].outcome = "rejected"
        /\ calls[c].logger = getLogger
        /\ LoggerOf(c).isInitialized
        /\ LoggerOf(c).authToken # NullToken
        /\ LoggerOf(c).tokenExpiry = LoggerOf(c).issued.at
                                       + LoggerOf(c).issued.expires_in * 1000

\* C40: a Logger whose authenticate answer gave an expires_in of at most 300
\* seconds never has a valid token and is never authenticated, from the
\* instant of the answer on, although initialize() completes on it; and a
\* Log of a valid record made on it once initialized sends its POST, with
\* that token.
C40_ShortTokenNeverValid ==
    /\ [](\A l \in 1..Len(loggers) :
            (loggers[l].issued # NotIssued /\ loggers[l].issued.expires_in <= 300)
            => /\ loggers[l].authToken # NullToken
               /\ loggers[l].tokenExpiry - loggers[l].issued.at <= 5 * 60 * 1000
               /\ now >= loggers[l].issued.at
               /\ ~isTokenValid(loggers[l])
               /\ ~isAuthenticated(loggers[l]))
    /\ [][\A c \in Callers :
             (/\ calls[c].pc = "idle" /\ calls'[c].pc # "idle"
              /\ globalLogger # 0
              /\ loggers[globalLogger].isInitialized
              /\ loggers[globalLogger].issued # NotIssued
              /\ loggers[globalLogger].issued.expires_in <= 300)
             => /\ calls'[c].pc = "posting"
                /\ calls'[c].header
                     = [scheme |-> "Bearer", token |-> loggers[globalLogger].authToken]]_vars

\* initialize() has completed with an answer of exactly 300 seconds; at the
\* instant of the answer the facade is initialized but not authenticated,
\* and a Log made on it has been delivered.
C40_Witness ==
    \E c \in Callers :
        /\ calls[c].pc = "done"
        /\ calls[c].result.kind = "ok"
        /\ calls[c].logger = getLogger
        /\ LoggerOf(c).isInitialized
        /\ LoggerOf(c).issued = [at |-> 0, expires_in |-> 300]
        /\ now = 0
        /\ ~isTokenValid(LoggerOf(c))
        /\ ~isAuthenticated(LoggerOf(c))

\* A createShortUrl of request slot c has returned its short link.
CreateSucceeded(c) ==
    /\ urlService.ops[c].name = "createShortUrl"
    /\ urlService.ops[c].pc = "done"
    /\ urlService.ops[c].outcome = "returned"

\* C31: of the creates in progress at once no two succeed for one shortcode,
\* and the shortcode of a create that succeeded stays mapped to the URL of
\* that create.
C31_ShortcodeCreatedOnce ==
    \A c \in DOMAIN urlService.ops :
        CreateSucceeded(c)
        => /\ urlService.shortUrls[urlService.ops[c].shortcode].originalUrl
                = urlService.ops[c].request.url
           /\ \A d \in DOMAIN urlService.ops \ {c} :
                 CreateSucceeded(d)
                 => urlService.ops[d].shortcode # urlService.ops[c].shortcode

\* C32: once no operation is in progress, the clicks recorded for a
\* shortcode are as many as the responses that redirected to its URL, and
\* the statistics operation returns that number as totalClicks.
C32_EveryRedirectRecordsOneClick ==
    (\A c \in DOMAIN urlService.ops : urlService.ops[c].pc \in {"idle", "done"})
    => /\ \A shortcode \in Shortcodes :
             urlService.clicks[shortcode] = urlService.redirects[shortcode]
       /\ \A c \in DOMAIN urlService.ops :
             LET op == urlService.ops[c]
             IN  (op.name = "getStatistics" /\ op.value.kind = "statistics")
                 => op.value.totalClicks = urlService.redirects[op.request.shortcode]

\* The shortcode an operation was called with was not in the map at the
\* call, or the clock was past its expiryDate.
UnknownOrExpired(op) ==
    \/ ~op.before[op.request.shortcode].stored
    \/ op.at > op.before[op.request.shortcode].expiryDate

\* C33: getOriginalUrl yields the original URL only for a shortcode in the
\* map and not past its expiryDate; for another shortcode it returns null,
\* and the redirect endpoint has answered 404 and recorded no click.
C33_UnknownOrExpiredIsNotFound ==
    \A c \in DOMAIN urlService.ops :
        LET op == urlService.ops[c]
        IN  op.name \in {"getOriginalUrl", "redirectToOriginalUrl"}
            => /\ op.value.kind = "originalUrl"
                  => /\ ~UnknownOrExpired(op)
                     /\ op.value = OriginalUrl(op.before[op.request.shortcode])
               /\ (op.pc = "done" /\ UnknownOrExpired(op))
                  => /\ op.outcome = "returned"
                     /\ op.value = NullValue
                     /\ ~op.clicked
                     /\ op.name = "redirectToOriginalUrl" => op.response = 404

====
